---- MODULE Spec2Model ----
(***************************************************************************)
(* bad-browser: the playback engine (src/src/video.rs), its decode         *)
(* threads, the event channel and the consumer loop that drives the engine *)
(* from key presses (src/src/app.rs, main loop of src/src/main.rs).        *)
(*                                                                         *)
(* Time (seek_time, duration, Instant) is counted in ticks of              *)
(* 1/TicksPerSec second.  A cancel flag (Arc<AtomicBool>) is named by the  *)
(* id of the session it was created for; a decoder process and a decode    *)
(* thread are named by their session id too, an audio process by a pid.    *)
(***************************************************************************)
EXTENDS Integers, Sequences, FiniteSets, TLC

\* ---- bounds of the model ----
MaxSessions == 2      \* starts (sessions) explored
MaxTime == 1          \* ticks the wall clock advances
MaxFrames == 1        \* frames one decoder emits before its stream ends
MaxAudio == 2         \* audio processes spawned
MaxFetches == 5       \* page fetches in flight at one time
MaxLen == 3           \* characters in the input line
MaxStream == 3        \* frames of a stream where their order is followed
MaxEntered == 1       \* fetches in flight when Enter starts another
MaxHistory == 3       \* entries of the history

\* ---- program constants ----
ChanCap == 5          \* mpsc::sync_channel(5)
SeekSeconds == 5      \* engine.seek(+-5.0, ..)
TicksPerSec == 2      \* resolution of the f64 seconds: one tick is half a second
InitWidth == 100
InitHeight == 50

SeekDelta == SeekSeconds * TicksPerSec
OneSecond == TicksPerSec

\* durations ffprobe may report: unknown (0.0), half a second, five seconds
Durations == {0, 1, SeekSeconds * TicksPerSec}
\* terminal sizes (width, height) at the time of a key press
TermSizes == {<<2, 1>>, <<2, 2>>}

Sessions == 1..MaxSessions
\* one pid beyond the bound, so that a spawn past it is seen and refused
Pids == 1..(MaxAudio + 1)

VARIABLES
    \* VideoEngine fields
    session_id, current_stopper, pause_signal, audio_process, ffmpeg_process,
    seek_time, duration, start_instant, is_paused, buffer, source_width,
    source_height,
    \* shared objects and OS state the engine refers to
    stoppers,       \* the cancel flag created for each session
    aud,            \* audio (ffplay) processes by pid
    dec,            \* decoder (ffmpeg) process and pipe of each session
    thr,            \* decode thread of each session
    chan,           \* the event channel (tx, rx)
    \* App fields and main loop
    mode, previous_mode,
    now,            \* the wall clock (Instant::now())
    call,           \* the facade call made by the last step, with its effects
    main_pc,        \* where the main loop is: draining events or polling a key
    buffer_lock,    \* the thread holding the Mutex of the frame buffer (0: free)
    web,            \* fetch threads (WebEngine::fetch) that have not ended yet
    edit,           \* url_input and cursor_pos, with the last two edits of them
    applied,        \* the frames each session's thread has copied into the buffer
    nav             \* history, history_index, prefetch_data and the fetches in flight

engine_vars == <<session_id, current_stopper, pause_signal, audio_process,
                 ffmpeg_process, seek_time, duration, start_instant, is_paused,
                 buffer, source_width, source_height, stoppers, aud, dec, thr>>
vars == <<session_id, current_stopper, pause_signal, audio_process,
          ffmpeg_process, seek_time, duration, start_instant, is_paused,
          buffer, source_width, source_height, stoppers, aud, dec, thr,
          chan, mode, previous_mode, now, call, main_pc, buffer_lock, web, edit, applied, nav>>

\* ---------------------------------------------------------------- values

NoEvent == [type |-> "none", id |-> 0]
VideoEnded(id) == [type |-> "VideoEnded", id |-> id]
\* what a fetch thread sends: PageLoaded, PrefetchReady or Error
PageEvent == [type |-> "PageEvent", id |-> 0]

\* variant: Vec::with_capacity(n), which reserves n bytes but has length 0
ZeroBufferWithCapacity(n) == [len |-> 0, sess |-> 0, frame |-> 0]

\* vec![0u8; n]
ZeroBuffer(n) == [len |-> n, sess |-> 0, frame |-> 0]

NoAudio == [st |-> "none", sess |-> 0]
\* avail: whole frames written to the pipe and not yet read
NoDecoder == [st |-> "none", avail |-> 0]
\* nread: number of the frame held in `frame` (0: none read yet)
NoThread == [pc |-> "none", size |-> 0, nread |-> 0, current_session_id |-> 0]

NoCall == [op |-> "none"]

\* no frame copied yet
NoFrames == [s \in Sessions |-> <<>>]

\* format!("{seek_seconds:.2}"): the offset handed to ffmpeg/ffplay, in
\* hundredths of a second, rounded half up
FormatSeek(t) == (200 * t + TicksPerSec) \div (2 * TicksPerSec)

\* The engine and the objects its methods touch, as one value; the log
\* fields collect the processes a method spawns, terminates and signals, and
\* events lists its terminations and spawns in the order they are made.
World ==
    [session_id |-> session_id, current_stopper |-> current_stopper,
     pause_signal |-> pause_signal, audio_process |-> audio_process,
     ffmpeg_process |-> ffmpeg_process, seek_time |-> seek_time,
     duration |-> duration, start_instant |-> start_instant,
     is_paused |-> is_paused, buffer |-> buffer,
     source_width |-> source_width, source_height |-> source_height,
     stoppers |-> stoppers, aud |-> aud, dec |-> dec, thr |-> thr,
     spawned |-> {}, killed |-> {}, signals |-> {}, events |-> <<>>]

Install(e) ==
    /\ session_id' = e.session_id
    /\ current_stopper' = e.current_stopper
    /\ pause_signal' = e.pause_signal
    /\ audio_process' = e.audio_process
    /\ ffmpeg_process' = e.ffmpeg_process
    /\ seek_time' = e.seek_time
    /\ duration' = e.duration
    /\ start_instant' = e.start_instant
    /\ is_paused' = e.is_paused
    /\ buffer' = e.buffer
    /\ source_width' = e.source_width
    /\ source_height' = e.source_height
    /\ stoppers' = e.stoppers
    /\ aud' = e.aud
    /\ dec' = e.dec
    /\ thr' = e.thr

\* the engine's own fields
Fields(e) ==
    [session_id |-> e.session_id, current_stopper |-> e.current_stopper,
     pause_signal |-> e.pause_signal, audio_process |-> e.audio_process,
     ffmpeg_process |-> e.ffmpeg_process, seek_time |-> e.seek_time,
     start_instant |-> e.start_instant, is_paused |-> e.is_paused,
     buffer |-> e.buffer, source_width |-> e.source_width,
     source_height |-> e.source_height]

\* the record of a facade call: the engine before it, the time of the call,
\* its arguments and, from e (the engine after it), its effects on processes
Called(op, args, e) ==
    [op |-> op, pre |-> Fields(World), at |-> now, args |-> args,
     spawned |-> e.spawned, killed |-> e.killed, signals |-> e.signals,
     events |-> e.events]

\* ------------------------------------------------- VideoEngine (video.rs)

\* variant: the child is killed through a borrow, the handle is not taken
TerminateAudioKeepHandle(e) ==
    LET p == e.audio_process IN
    IF p = 0 THEN e
    ELSE [e EXCEPT !.aud[p].st = "dead",
                   !.killed = @ \cup {<<"audio", p>>},
                   !.signals = @ \cup {<<"KILL", "audio", p>>},
                   !.events = Append(@, <<"kill", "audio", p>>)]

\* child.kill(); child.wait(); kill -9 pid
TerminateAudio(e) ==
    LET p == e.audio_process IN
    IF p = 0 THEN e
    ELSE [e EXCEPT !.audio_process = 0,
                   !.aud[p].st = "dead",
                   !.killed = @ \cup {<<"audio", p>>},
                   !.signals = @ \cup {<<"KILL", "audio", p>>},
                   !.events = Append(@, <<"kill", "audio", p>>)]

\* variant: the handle is dropped and the child left running (dropping a
\* std::process::Child does not kill it)
TerminateFfmpegDetach(e) == [e EXCEPT !.ffmpeg_process = 0]

TerminateFfmpeg(e) ==
    LET d == e.ffmpeg_process IN
    IF d = 0 THEN e
    ELSE [e EXCEPT !.ffmpeg_process = 0,
                   !.dec[d].st = "dead",
                   !.killed = @ \cup {<<"ffmpeg", d>>},
                   !.signals = @ \cup {<<"KILL", "ffmpeg", d>>},
                   !.events = Append(@, <<"kill", "ffmpeg", d>>)]

\* variant: the cancel handle is taken but `true` is never stored in it
CancelCurrentTakeOnly(e) == [e EXCEPT !.current_stopper = 0]

CancelCurrent(e) ==
    LET s == e.current_stopper IN
    IF s = 0 THEN e
    ELSE [e EXCEPT !.stoppers[s] = TRUE, !.current_stopper = 0]

stop_processes(e) == TerminateFfmpeg(TerminateAudio(CancelCurrent(e)))

\* variant: the handle is overwritten and the old child is never killed
spawn_audio_leak(e, seek_seconds, ok) ==
    LET p == 1 + Cardinality({q \in Pids : e.aud[q].st # "none"})
    IN  IF ok
        THEN [e EXCEPT !.audio_process = p,
                       !.aud[p] = [st |-> "running", sess |-> e.session_id],
                       !.spawned = @ \cup {<<"audio", p, FormatSeek(seek_seconds)>>},
                       !.events = Append(@, <<"spawn", "audio", p>>)]
        ELSE [e EXCEPT !.audio_process = 0]

\* variant: the replacement is spawned first, the old child killed after it
spawn_audio_then_kill(e, seek_seconds, ok) ==
    LET old == e.audio_process
        p == 1 + Cardinality({q \in Pids : e.aud[q].st # "none"})
        e1 == IF ok
              THEN [e EXCEPT !.audio_process = p,
                             !.aud[p] = [st |-> "running", sess |-> e.session_id],
                             !.spawned = @ \cup {<<"audio", p, FormatSeek(seek_seconds)>>},
                             !.events = Append(@, <<"spawn", "audio", p>>)]
              ELSE [e EXCEPT !.audio_process = 0]
    IN  IF old = 0 THEN e1
        ELSE [e1 EXCEPT !.aud[old].st = "dead",
                        !.killed = @ \cup {<<"audio", old>>},
                        !.signals = @ \cup {<<"KILL", "audio", old>>},
                        !.events = Append(@, <<"kill", "audio", old>>)]

\* ok: whether Command::new("ffplay")...spawn() succeeds
spawn_audio(e, seek_seconds, ok) ==
    LET e1 == IF e.audio_process = 0 THEN e
              ELSE [e EXCEPT !.audio_process = 0,
                             !.aud[e.audio_process].st = "dead",
                             !.killed = @ \cup {<<"audio", e.audio_process>>},
                             !.signals = @ \cup {<<"KILL", "audio", e.audio_process>>},
                             !.events = Append(@, <<"kill", "audio", e.audio_process>>)]
        p == 1 + Cardinality({q \in Pids : e.aud[q].st # "none"})
    IN  IF ok
        THEN [e1 EXCEPT !.audio_process = p,
                        !.aud[p] = [st |-> "running", sess |-> e.session_id],
                        !.spawned = @ \cup {<<"audio", p, FormatSeek(seek_seconds)>>},
                        !.events = Append(@, <<"spawn", "audio", p>>)]
        ELSE e1

\* variant: the pause state of the previous session is carried over
start_keeps_pause(e, t, term_w, term_h, seek_seconds, audio_ok, ffmpeg_ok) ==
    LET e1 == stop_processes(e)
        sid == e1.session_id + 1
        e2 == [e1 EXCEPT !.session_id = sid,
                         !.current_stopper = sid,
                         !.stoppers[sid] = FALSE]
        e3 == spawn_audio(e2, seek_seconds, audio_ok)
        e4 == [e3 EXCEPT !.seek_time = seek_seconds,
                         !.start_instant = t,
                         !.source_width = term_w,
                         !.source_height = term_h,
                         !.buffer = ZeroBuffer(term_w * term_h)]
    IN  IF ffmpeg_ok
        THEN [e4 EXCEPT !.ffmpeg_process = sid,
                        !.dec[sid] = [st |-> "alive", avail |-> 0],
                        !.thr[sid] = [pc |-> "top", size |-> term_w * term_h,
                                      nread |-> 0, current_session_id |-> sid],
                        !.spawned = @ \cup {<<"ffmpeg", sid, FormatSeek(seek_seconds)>>},
                        !.events = Append(@, <<"spawn", "ffmpeg", sid>>)]
        ELSE e4

\* variant: the decode thread is spawned whether or not ffmpeg was
start_thread_always(e, t, term_w, term_h, seek_seconds, audio_ok, ffmpeg_ok) ==
    LET e1 == stop_processes(e)
        sid == e1.session_id + 1
        e2 == [e1 EXCEPT !.session_id = sid,
                         !.current_stopper = sid,
                         !.stoppers[sid] = FALSE,
                         !.is_paused = FALSE,
                         !.pause_signal = FALSE]
        e3 == spawn_audio(e2, seek_seconds, audio_ok)
        e4 == [e3 EXCEPT !.seek_time = seek_seconds,
                         !.start_instant = t,
                         !.source_width = term_w,
                         !.source_height = term_h,
                         !.buffer = ZeroBuffer(term_w * term_h),
                         !.thr[sid] = [pc |-> "top", size |-> term_w * term_h,
                                       nread |-> 0, current_session_id |-> sid]]
    IN  IF ffmpeg_ok
        THEN [e4 EXCEPT !.ffmpeg_process = sid,
                        !.dec[sid] = [st |-> "alive", avail |-> 0],
                        !.spawned = @ \cup {<<"ffmpeg", sid, FormatSeek(seek_seconds)>>},
                        !.events = Append(@, <<"spawn", "ffmpeg", sid>>)]
        ELSE e4

\* t: Instant::now(); audio_ok, ffmpeg_ok: whether the two spawns succeed
start(e, t, term_w, term_h, seek_seconds, audio_ok, ffmpeg_ok) ==
    LET e1 == stop_processes(e)
        sid == e1.session_id + 1
        e2 == [e1 EXCEPT !.session_id = sid,
                         !.current_stopper = sid,
                         !.stoppers[sid] = FALSE,
                         !.is_paused = FALSE,
                         !.pause_signal = FALSE]
        e3 == spawn_audio(e2, seek_seconds, audio_ok)
        e4 == [e3 EXCEPT !.seek_time = seek_seconds,
                         !.start_instant = t,
                         !.source_width = term_w,
                         !.source_height = term_h,
                         !.buffer = ZeroBuffer(term_w * term_h)]
    IN  IF ffmpeg_ok
        THEN [e4 EXCEPT !.ffmpeg_process = sid,
                        !.dec[sid] = [st |-> "alive", avail |-> 0],
                        !.thr[sid] = [pc |-> "top", size |-> term_w * term_h,
                                      nread |-> 0, current_session_id |-> sid],
                        !.spawned = @ \cup {<<"ffmpeg", sid, FormatSeek(seek_seconds)>>},
                        !.events = Append(@, <<"spawn", "ffmpeg", sid>>)]
        ELSE e4

\* variant: stop also moves to a fresh session id
stop_bumps_session(e) ==
    [stop_processes(e) EXCEPT !.seek_time = 0,
                              !.is_paused = FALSE,
                              !.pause_signal = FALSE,
                              !.session_id = @ + 1]

stop(e) ==
    [stop_processes(e) EXCEPT !.seek_time = 0,
                              !.is_paused = FALSE,
                              !.pause_signal = FALSE]

\* variant: resume respawns the audio process whatever `kill -CONT` reports
toggle_pause_always_respawn(e, t, sig_ok, audio_ok) ==
    LET paused == ~e.is_paused
        e1 == [e EXCEPT !.is_paused = paused, !.pause_signal = paused]
        p == e.audio_process
    IN  IF paused
        THEN LET e2 == [e1 EXCEPT !.seek_time = @ + (t - e.start_instant)]
             IN  IF p = 0 THEN e2
                 ELSE IF sig_ok
                 THEN [e2 EXCEPT !.aud[p].st = IF @ = "running" THEN "stopped" ELSE @,
                                 !.signals = @ \cup {<<"STOP", "audio", p>>}]
                 ELSE [e2 EXCEPT !.audio_process = 0,
                                 !.aud[p].st = "dead",
                                 !.killed = @ \cup {<<"audio", p>>},
                                 !.signals = @ \cup {<<"STOP", "audio", p>>},
                                 !.events = Append(@, <<"kill", "audio", p>>)]
        ELSE LET e2 == [e1 EXCEPT !.start_instant = t]
                 e3 == IF p = 0 THEN e2
                       ELSE [e2 EXCEPT !.signals = @ \cup {<<"CONT", "audio", p>>}]
             IN  spawn_audio(e3, e3.seek_time, audio_ok)

\* variant: a failed `kill -STOP` is ignored, the audio process plays on
toggle_pause_ignores_stop_failure(e, t, sig_ok, audio_ok) ==
    LET paused == ~e.is_paused
        e1 == [e EXCEPT !.is_paused = paused, !.pause_signal = paused]
        p == e.audio_process
    IN  IF paused
        THEN LET e2 == [e1 EXCEPT !.seek_time = @ + (t - e.start_instant)]
             IN  IF p = 0 THEN e2
                 ELSE IF sig_ok
                 THEN [e2 EXCEPT !.aud[p].st = IF @ = "running" THEN "stopped" ELSE @,
                                 !.signals = @ \cup {<<"STOP", "audio", p>>}]
                 ELSE [e2 EXCEPT !.signals = @ \cup {<<"STOP", "audio", p>>}]
        ELSE LET e2 == [e1 EXCEPT !.start_instant = t]
                 e3 == IF p = 0 THEN e2
                       ELSE IF sig_ok
                       THEN [e2 EXCEPT !.aud[p].st = IF @ = "stopped" THEN "running" ELSE @,
                                       !.signals = @ \cup {<<"CONT", "audio", p>>}]
                       ELSE [e2 EXCEPT !.signals = @ \cup {<<"CONT", "audio", p>>}]
                 need_respawn == ~(p # 0 /\ sig_ok)
             IN  IF need_respawn THEN spawn_audio(e3, e3.seek_time, audio_ok) ELSE e3

\* variant: pause tears the session's processes down, resume starts them anew
toggle_pause_by_restart(e, t, sig_ok, audio_ok) ==
    IF ~e.is_paused
    THEN [stop_processes(e) EXCEPT !.is_paused = TRUE,
                                   !.pause_signal = TRUE,
                                   !.seek_time = @ + (t - e.start_instant)]
    ELSE start(e, t, e.source_width, e.source_height, e.seek_time, audio_ok, TRUE)

\* variant: resume leaves the wall-clock anchor where the last start put it
toggle_pause_keeps_anchor(e, t, sig_ok, audio_ok) ==
    LET paused == ~e.is_paused
        e1 == [e EXCEPT !.is_paused = paused, !.pause_signal = paused]
        p == e.audio_process
    IN  IF paused
        THEN LET e2 == [e1 EXCEPT !.seek_time = @ + (t - e.start_instant)]
             IN  IF p = 0 THEN e2
                 ELSE IF sig_ok
                 THEN [e2 EXCEPT !.aud[p].st = IF @ = "running" THEN "stopped" ELSE @,
                                 !.signals = @ \cup {<<"STOP", "audio", p>>}]
                 ELSE [e2 EXCEPT !.audio_process = 0,
                                 !.aud[p].st = "dead",
                                 !.killed = @ \cup {<<"audio", p>>},
                                 !.signals = @ \cup {<<"STOP", "audio", p>>},
                                 !.events = Append(@, <<"kill", "audio", p>>)]
        ELSE LET e3 == IF p = 0 THEN e1
                       ELSE IF sig_ok
                       THEN [e1 EXCEPT !.aud[p].st = IF @ = "stopped" THEN "running" ELSE @,
                                       !.signals = @ \cup {<<"CONT", "audio", p>>}]
                       ELSE [e1 EXCEPT !.signals = @ \cup {<<"CONT", "audio", p>>}]
                 need_respawn == ~(p # 0 /\ sig_ok)
             IN  IF need_respawn THEN spawn_audio(e3, e3.seek_time, audio_ok) ELSE e3

\* sig_ok: whether `kill -STOP pid` / `kill -CONT pid` reports success;
\* audio_ok: whether a respawn of ffplay succeeds
toggle_pause(e, t, sig_ok, audio_ok) ==
    LET paused == ~e.is_paused
        e1 == [e EXCEPT !.is_paused = paused, !.pause_signal = paused]
        p == e.audio_process
    IN  IF paused
        THEN LET e2 == [e1 EXCEPT !.seek_time = @ + (t - e.start_instant)]
             IN  IF p = 0 THEN e2
                 ELSE IF sig_ok
                 THEN [e2 EXCEPT !.aud[p].st = IF @ = "running" THEN "stopped" ELSE @,
                                 !.signals = @ \cup {<<"STOP", "audio", p>>}]
                 ELSE [e2 EXCEPT !.audio_process = 0,
                                 !.aud[p].st = "dead",
                                 !.killed = @ \cup {<<"audio", p>>},
                                 !.signals = @ \cup {<<"STOP", "audio", p>>},
                                 !.events = Append(@, <<"kill", "audio", p>>)]
        ELSE LET e2 == [e1 EXCEPT !.start_instant = t]
                 e3 == IF p = 0 THEN e2
                       ELSE IF sig_ok
                       THEN [e2 EXCEPT !.aud[p].st = IF @ = "stopped" THEN "running" ELSE @,
                                       !.signals = @ \cup {<<"CONT", "audio", p>>}]
                       ELSE [e2 EXCEPT !.signals = @ \cup {<<"CONT", "audio", p>>}]
                 need_respawn == ~(p # 0 /\ sig_ok)
             IN  IF need_respawn THEN spawn_audio(e3, e3.seek_time, audio_ok) ELSE e3

\* variant: no lower clamp
SeekTargetNoFloor(e, t, delta) ==
    LET elapsed == IF e.is_paused THEN 0 ELSE t - e.start_instant
        new_time == e.seek_time + elapsed + delta
    IN  IF e.duration > 0 /\ new_time > e.duration
        THEN e.duration - OneSecond
        ELSE new_time

\* variant: the upper clamp lands on the duration itself
SeekTargetToEnd(e, t, delta) ==
    LET elapsed == IF e.is_paused THEN 0 ELSE t - e.start_instant
        new_time == e.seek_time + elapsed + delta
        clamped0 == IF new_time < 0 THEN 0 ELSE new_time
    IN  IF e.duration > 0 /\ clamped0 > e.duration
        THEN e.duration
        ELSE clamped0

\* variant: the time since the anchor is added whether paused or not
SeekTargetCountsPause(e, t, delta) ==
    LET elapsed == t - e.start_instant
        new_time == e.seek_time + elapsed + delta
        clamped0 == IF new_time < 0 THEN 0 ELSE new_time
    IN  IF e.duration > 0 /\ clamped0 > e.duration
        THEN e.duration - OneSecond
        ELSE clamped0

\* the offset seek hands to start
SeekTarget(e, t, delta) ==
    LET elapsed == IF e.is_paused THEN 0 ELSE t - e.start_instant
        current_real_time == e.seek_time + elapsed
        new_time == current_real_time + delta
        clamped0 == IF new_time < 0 THEN 0 ELSE new_time
    IN  IF e.duration > 0 /\ clamped0 > e.duration
        THEN e.duration - OneSecond
        ELSE clamped0

seek(e, t, delta, term_w, term_h, audio_ok, ffmpeg_ok) ==
    start(e, t, term_w, term_h, SeekTarget(e, t, delta), audio_ok, ffmpeg_ok)

\* the playback position at time t, as the application reads it
\* (check_demo_transitions, and the progress bar of ui.rs)
current_time(e, t) ==
    IF e.is_paused THEN e.seek_time ELSE e.seek_time + (t - e.start_instant)

\* ------------------------------------------------- the input line (text.rs)

\* A String is the sequence of its chars, a cursor a byte offset into it.
\* The chars of the model: a letter, a space, a Hangul syllable (3 bytes)
\* and a combining acute accent (2 bytes), which extends the grapheme of the
\* char before it (UAX #29, GB9).
Chars == {"a", " ", "han", "acute"}

\* char::len_utf8
len_utf8(c) == CASE c = "han" -> 3 [] c = "acute" -> 2 [] OTHER -> 1

\* char::is_whitespace
is_whitespace(c) == c = " "

\* Grapheme_Cluster_Break = Extend
Extend(c) == c = "acute"

Strings == UNION {[1..n -> Chars] : n \in 0..MaxLen}

\* byte offset of the k-th char; the one past the last is str::len
RECURSIVE Offset(_, _)
Offset(text, k) == IF k <= 1 THEN 0 ELSE Offset(text, k - 1) + len_utf8(text[k - 1])

StrLen(text) == Offset(text, Len(text) + 1)

\* str::is_char_boundary
is_char_boundary(text, pos) == \E k \in 1..(Len(text) + 1) : Offset(text, k) = pos

\* the offsets yielded by text.grapheme_indices(true)
grapheme_indices(text) ==
    {Offset(text, k) : k \in {j \in 1..Len(text) : j = 1 \/ ~Extend(text[j])}}

Minimum(S) == CHOOSE x \in S : \A y \in S : x <= y

Maximum(S) == CHOOSE x \in S : \A y \in S : x >= y

\* &text[a..b], for char boundaries a <= b
Slice(text, a, b) ==
    LET ks == {k \in 1..Len(text) : a <= Offset(text, k) /\ Offset(text, k) < b}
    IN  IF ks = {} THEN <<>> ELSE SubSeq(text, Minimum(ks), Maximum(ks))

\* text.drain(a..b)
Drain(text, a, b) == Slice(text, 0, a) \o Slice(text, b, StrLen(text))

prev_grapheme_boundary(text, pos) ==
    LET p == IF pos < StrLen(text) THEN pos ELSE StrLen(text)
        before == {i \in grapheme_indices(text) : i < p}
    IN  IF before = {} THEN 0 ELSE Maximum(before)

next_grapheme_boundary(text, pos) ==
    LET p == IF pos < StrLen(text) THEN pos ELSE StrLen(text)
        rest == {i \in grapheme_indices(text) : i >= p}
    IN  IF p >= StrLen(text) THEN StrLen(text)
        ELSE IF rest = {} THEN StrLen(text)
        ELSE LET idx == Minimum(rest)
                 after == rest \ {idx}
             IN  IF idx = p
                 THEN IF after = {} THEN StrLen(text) ELSE Minimum(after)
                 ELSE idx

\* the value of (text, cursor) after a call, and what the call returned
Edited(text, cursor, ret) == [text |-> text, cursor |-> cursor, ret |-> ret]

delete_prev_grapheme(text, cursor) ==
    IF cursor = 0 THEN Edited(text, cursor, FALSE)
    ELSE LET prev == prev_grapheme_boundary(text, cursor)
         IN  Edited(Drain(text, prev, cursor), prev, TRUE)

delete_next_grapheme(text, cursor) ==
    IF cursor >= StrLen(text) THEN Edited(text, cursor, FALSE)
    ELSE Edited(Drain(text, cursor, next_grapheme_boundary(text, cursor)), cursor, TRUE)

\* variant: the cursor advances by one, whatever the char's encoded length
insert_grapheme_one_byte(text, cursor, c) ==
    Edited(Slice(text, 0, cursor) \o <<c>> \o Slice(text, cursor, StrLen(text)),
           cursor + 1, TRUE)

\* text.insert(*cursor, c); *cursor += c.len_utf8()
insert_grapheme(text, cursor, c) ==
    Edited(Slice(text, 0, cursor) \o <<c>> \o Slice(text, cursor, StrLen(text)),
           cursor + len_utf8(c), TRUE)

move_left_grapheme(text, cursor) ==
    Edited(text, prev_grapheme_boundary(text, cursor), TRUE)

move_right_grapheme(text, cursor) ==
    Edited(text, next_grapheme_boundary(text, cursor), TRUE)

\* while pos > 0 { if text[prev..pos].chars().all(..) { pos = prev } else { break } }
\* ws: the chars are tested for being whitespace (TRUE) or for not being it
RECURSIVE SkipBackward(_, _, _)
SkipBackward(text, pos, ws) ==
    IF pos = 0 THEN 0
    ELSE LET prev == prev_grapheme_boundary(text, pos)
             seg == Slice(text, prev, pos)
         IN  IF \A k \in 1..Len(seg) : is_whitespace(seg[k]) = ws
             THEN SkipBackward(text, prev, ws)
             ELSE pos

\* while pos < len { if text[pos..next].chars().all(..) { pos = next } else { break } }
RECURSIVE SkipForward(_, _, _)
SkipForward(text, pos, ws) ==
    IF pos >= StrLen(text) THEN pos
    ELSE LET next == next_grapheme_boundary(text, pos)
             seg == Slice(text, pos, next)
         IN  IF \A k \in 1..Len(seg) : is_whitespace(seg[k]) = ws
             THEN SkipForward(text, next, ws)
             ELSE pos

delete_word(text, cursor) ==
    IF cursor = 0 THEN Edited(text, cursor, TRUE)
    ELSE LET end == SkipBackward(text, cursor, TRUE)
             from == SkipBackward(text, end, FALSE)   \* `start` in the source
         IN  Edited(Drain(text, from, cursor), from, TRUE)

move_word_backward(text, cursor) ==
    LET pos == IF cursor < StrLen(text) THEN cursor ELSE StrLen(text)
    IN  Edited(text, SkipBackward(text, SkipBackward(text, pos, TRUE), FALSE), TRUE)

move_word_forward(text, cursor) ==
    LET pos == IF cursor < StrLen(text) THEN cursor ELSE StrLen(text)
    IN  Edited(text, SkipForward(text, SkipForward(text, pos, FALSE), TRUE), TRUE)

\* the input line before any edit
NoEdit ==
    [text |-> <<>>, cursor |-> 0, op |-> "none", c |-> "", ret |-> TRUE,
     pre |-> [text |-> <<>>, cursor |-> 0, op |-> "none", c |-> "",
              pre |-> [text |-> <<>>, cursor |-> 0]]]

\* ------------------------------------------------------------ navigation

\* the urls of pages
Urls == {"A", "B"}

\* App::new: history: vec![], history_index: 0, prefetch_data: None; `flying`
\* counts the fetch threads that have not ended, by what they were started
\* for; op, url, is_history_nav and was are the last step and the history
\* before it
NoNav ==
    [history |-> <<>>, history_index |-> 0, prefetch_data |-> "none",
     flying |-> [page |-> 0, hist |-> 0, pre |-> 0],
     op |-> "none", url |-> "none", is_history_nav |-> FALSE,
     was |-> [history |-> <<>>, history_index |-> 0]]

InFlight(n) == n.flying.page + n.flying.hist + n.flying.pre

\* Vec::truncate
truncate(v, len) == IF len < Len(v) THEN SubSeq(v, 1, len) ELSE v

\* variant: a page that is not a history navigation is appended whatever
\* lies after history_index
page_loaded_no_truncate(n, url, is_history_nav) ==
    LET push == ~is_history_nav
                   /\ (n.history = <<>> \/ n.history[Len(n.history)] # url)
        h == IF push THEN Append(n.history, url) ELSE n.history
    IN  [n EXCEPT !.history = h,
                  !.history_index = IF push THEN Len(h) - 1 ELSE @,
                  !.prefetch_data = "none"]

\* handle_events, BgEvent::PageLoaded
page_loaded(n, url, is_history_nav) ==
    LET push == ~is_history_nav
                   /\ (n.history = <<>> \/ n.history[Len(n.history)] # url)
        h == IF push THEN Append(truncate(n.history, n.history_index + 1), url)
             ELSE n.history
    IN  [n EXCEPT !.history = h,
                  !.history_index = IF push THEN Len(h) - 1 ELSE @,
                  !.prefetch_data = "none"]

\* handle_events, BgEvent::PrefetchReady: a page of the demo goes to the
\* demo cache, any other is kept as prefetch_data
prefetch_ready(n, url, demo) ==
    IF demo THEN n ELSE [n EXCEPT !.prefetch_data = url]

\* App::trigger_fetch, as far as the fetch threads go
trigger_fetch(n, is_prefetch, is_history) ==
    IF is_prefetch THEN [n EXCEPT !.flying.pre = @ + 1]
    ELSE IF is_history THEN [n EXCEPT !.flying.hist = @ + 1]
    ELSE [n EXCEPT !.flying.page = @ + 1]

\* App::trigger_random_prefetch; found: whether the page has a link
trigger_random_prefetch(n, found) ==
    IF found THEN trigger_fetch(n, TRUE, FALSE) ELSE n

\* App::apply_prefetch, and the prefetch 'r' falls back to without one
apply_prefetch(n, found) ==
    IF n.prefetch_data # "none"
    THEN LET h == Append(n.history, n.prefetch_data)
         IN  trigger_random_prefetch(
                 [n EXCEPT !.history = h, !.history_index = Len(h) - 1,
                           !.prefetch_data = "none"], found)
    ELSE trigger_random_prefetch(n, found)

\* on_key, KeyCode::Char('h')
history_back(n) ==
    IF n.history_index > 0
    THEN trigger_fetch([n EXCEPT !.history_index = @ - 1], FALSE, TRUE)
    ELSE n

\* on_key, KeyCode::Char('l')
history_forward(n) ==
    IF n.history_index + 1 < Len(n.history)
    THEN trigger_fetch([n EXCEPT !.history_index = @ + 1], FALSE, TRUE)
    ELSE n

\* ------------------------------------------------------------ initial state

\* App::new, but for the fetch threads it starts
Constructed ==
    /\ session_id = 0
    /\ current_stopper = 0
    /\ pause_signal = FALSE
    /\ audio_process = 0
    /\ ffmpeg_process = 0
    /\ seek_time = 0
    /\ duration \in Durations
    /\ start_instant = 0
    /\ is_paused = FALSE
    /\ buffer = ZeroBuffer(0)
    /\ source_width = InitWidth
    /\ source_height = InitHeight
    /\ stoppers = [s \in Sessions |-> FALSE]
    /\ aud = [p \in Pids |-> NoAudio]
    /\ dec = [s \in Sessions |-> NoDecoder]
    /\ thr = [s \in Sessions |-> NoThread]
    /\ chan = <<>>
    /\ mode = "Normal"
    /\ previous_mode = "Normal"
    /\ now = 0
    /\ call = NoCall
    /\ main_pc = "events"
    /\ buffer_lock = 0

\* the fetch threads are followed by ChanSpec alone
Init == Constructed /\ web = 0 /\ edit = NoEdit /\ applied = NoFrames /\ nav = NoNav

\* ------------------------------------------------ decode thread (video.rs)

\* what no step of a decode thread changes
CopyFrame == <<session_id, current_stopper, pause_signal, audio_process,
               ffmpeg_process, seek_time, duration, start_instant, is_paused,
               source_width, source_height, stoppers, aud,
               mode, previous_mode, now, call, main_pc, web, edit>>

ThreadFrame == <<CopyFrame, buffer_lock, applied, nav>>

\* the process has not left main()
Running == mode # "Exited"

\* the thread of session i moves to pc
Goto(i, pc) ==
    /\ thr' = [thr EXCEPT ![i].pc = pc]
    /\ dec' = dec

\* the thread function returns: `frame` and `stdout` (the read end of the
\* pipe, with whatever it still holds) are dropped
Exit(i) ==
    /\ thr' = [thr EXCEPT ![i].pc = "done", ![i].size = 0, ![i].nread = 0]
    /\ dec' = [dec EXCEPT ![i].avail = 0]

\* while !stopper.load(..)
ThreadLoopTop(i) ==
    /\ Running
    /\ thr[i].pc = "top"
    /\ IF stoppers[i] THEN Exit(i) ELSE Goto(i, "chk_pause")
    /\ UNCHANGED <<ThreadFrame, buffer, chan>>

\* if pause_sig.load(..) { sleep(100ms); continue; }
ThreadCheckPause(i) ==
    /\ Running
    /\ thr[i].pc = "chk_pause"
    /\ Goto(i, IF pause_signal THEN "top" ELSE "read")
    /\ UNCHANGED <<ThreadFrame, buffer, chan>>

\* stdout.read_exact(&mut frame): a whole frame is in the pipe (Ok), or the
\* pipe is empty and its writer is gone (Err); otherwise the read blocks
ThreadRead(i) ==
    /\ Running
    /\ thr[i].pc = "read"
    /\ \/ /\ dec[i].avail > 0
          /\ thr' = [thr EXCEPT ![i].nread = @ + 1, ![i].pc = "post_read"]
          /\ dec' = [dec EXCEPT ![i].avail = @ - 1]
       \/ /\ dec[i].avail = 0
          /\ dec[i].st = "dead"
          /\ Goto(i, "err")
    /\ UNCHANGED <<ThreadFrame, buffer, chan>>

\* Ok(_) => if stopper.load(..) { break; }
ThreadPostRead(i) ==
    /\ Running
    /\ thr[i].pc = "post_read"
    /\ IF stoppers[i] THEN Exit(i) ELSE Goto(i, "chk_pause2")
    /\ UNCHANGED <<ThreadFrame, buffer, chan>>

\* if !pause_sig.load(..) { .. }
ThreadCheckPause2(i) ==
    /\ Running
    /\ thr[i].pc = "chk_pause2"
    /\ Goto(i, IF pause_signal THEN "top" ELSE "copy")
    /\ UNCHANGED <<ThreadFrame, buffer, chan>>

\* the frame a thread holds after its n-th read
FrameOf(i) == [len |-> thr[i].size, sess |-> i, frame |-> thr[i].nread]

\* variant: the frame is copied without the length check
ThreadCopyUnchecked(i) ==
    /\ Running
    /\ thr[i].pc = "copy"
    /\ buffer' = FrameOf(i)
    /\ Goto(i, "top")
    /\ UNCHANGED <<ThreadFrame, chan>>

\* let mut lock = buf.lock(); if lock.len() == size { copy } else { break }
ThreadCopy(i) ==
    /\ Running
    /\ thr[i].pc = "copy"
    /\ IF buffer.len = thr[i].size
       THEN /\ buffer' = FrameOf(i)
            /\ Goto(i, "top")
       ELSE /\ buffer' = buffer
            /\ Exit(i)
    /\ UNCHANGED <<ThreadFrame, chan>>

\* variant: the buffer is reached without waiting for the Mutex
ThreadLockBarging(i) ==
    /\ Running
    /\ thr[i].pc = "copy"
    /\ buffer_lock' = i
    /\ Goto(i, "locked")
    /\ UNCHANGED <<CopyFrame, buffer, chan, applied, nav>>

\* ThreadCopy in two steps, for the specification that follows the Mutex:
\* let mut lock = buf.lock().unwrap() blocks while the Mutex is held
ThreadLock(i) ==
    /\ Running
    /\ thr[i].pc = "copy"
    /\ buffer_lock = 0
    /\ buffer_lock' = i
    /\ Goto(i, "locked")
    /\ UNCHANGED <<CopyFrame, buffer, chan, applied, nav>>

\* variant: the guard is declared outside the loop and lives as long as the
\* thread does
ThreadCopyKeepsLock(i) ==
    /\ Running
    /\ thr[i].pc = "locked"
    /\ buffer_lock = i
    /\ IF buffer.len = thr[i].size
       THEN /\ buffer' = FrameOf(i)
            /\ Goto(i, "top")
            /\ buffer_lock' = i
       ELSE /\ buffer' = buffer
            /\ Exit(i)
            /\ buffer_lock' = 0
    /\ UNCHANGED <<CopyFrame, chan, applied, nav>>

\* if lock.len() == size { copy } else { break }; the guard is dropped where
\* the block ends, on either path
ThreadCopyLocked(i) ==
    /\ Running
    /\ thr[i].pc = "locked"
    /\ buffer_lock = i
    /\ IF buffer.len = thr[i].size
       THEN /\ buffer' = FrameOf(i)
            /\ Goto(i, "top")
       ELSE /\ buffer' = buffer
            /\ Exit(i)
    /\ buffer_lock' = 0
    /\ UNCHANGED <<CopyFrame, chan, applied, nav>>

\* ThreadCopyLocked, with the frame it copies added to `applied`
ThreadCopyRecorded(i) ==
    /\ Running
    /\ thr[i].pc = "locked"
    /\ buffer_lock = i
    /\ IF buffer.len = thr[i].size
       THEN /\ buffer' = FrameOf(i)
            /\ applied' = [applied EXCEPT ![i] = Append(@, thr[i].nread)]
            /\ Goto(i, "top")
       ELSE /\ buffer' = buffer
            /\ applied' = applied
            /\ Exit(i)
    /\ buffer_lock' = 0
    /\ UNCHANGED <<CopyFrame, chan, nav>>

\* Err(_) => if !stopper.load(..) { tx.send(..) } break
ThreadErr(i) ==
    /\ Running
    /\ thr[i].pc = "err"
    /\ IF stoppers[i] THEN Exit(i) ELSE Goto(i, "send")
    /\ UNCHANGED <<ThreadFrame, buffer, chan>>

\* variant: the event carries the engine's session id at the time of the send
ThreadSendEngineId(i) ==
    /\ Running
    /\ thr[i].pc = "send"
    /\ Len(chan) < ChanCap
    /\ chan' = Append(chan, VideoEnded(session_id))
    /\ Exit(i)
    /\ UNCHANGED <<ThreadFrame, buffer>>

\* variant: no `break` after the send: the thread goes round its loop again
ThreadSendAndRetry(i) ==
    /\ Running
    /\ thr[i].pc = "send"
    /\ Len(chan) < ChanCap
    /\ chan' = Append(chan, VideoEnded(thr[i].current_session_id))
    /\ Goto(i, "top")
    /\ UNCHANGED <<ThreadFrame, buffer>>

\* variant: mpsc::channel(), which has no bound
ThreadSendUnbounded(i) ==
    /\ Running
    /\ thr[i].pc = "send"
    /\ chan' = Append(chan, VideoEnded(thr[i].current_session_id))
    /\ Exit(i)
    /\ UNCHANGED <<ThreadFrame, buffer>>

\* tx.send(BgEvent::VideoEnded(current_session_id)) blocks while the channel is full
ThreadSend(i) ==
    /\ Running
    /\ thr[i].pc = "send"
    /\ Len(chan) < ChanCap
    /\ chan' = Append(chan, VideoEnded(thr[i].current_session_id))
    /\ Exit(i)
    /\ UNCHANGED <<ThreadFrame, buffer>>

\* ------------------------------------------------- the external processes

EnvFrame == <<session_id, current_stopper, pause_signal, audio_process,
              ffmpeg_process, seek_time, duration, start_instant, is_paused,
              buffer, source_width, source_height, stoppers, aud, thr, chan,
              mode, previous_mode, call, main_pc, buffer_lock, web, edit, applied, nav>>

\* ffmpeg writes one more raw frame to its stdout (the pipe still has a reader)
DecoderEmit(i) ==
    /\ Running
    /\ dec[i].st = "alive"
    /\ thr[i].pc # "done"
    /\ thr[i].nread + dec[i].avail < MaxFrames
    /\ dec' = [dec EXCEPT ![i].avail = @ + 1]
    /\ UNCHANGED <<EnvFrame, now>>

\* ffmpeg reaches the end of the stream (or dies) and closes the pipe
DecoderExit(i) ==
    /\ Running
    /\ dec[i].st = "alive"
    /\ dec' = [dec EXCEPT ![i].st = "dead"]
    /\ UNCHANGED <<EnvFrame, now>>

\* DecoderEmit for a stream of up to MaxStream frames
DecoderEmitStream(i) ==
    /\ Running
    /\ dec[i].st = "alive"
    /\ thr[i].pc # "done"
    /\ thr[i].nread + dec[i].avail < MaxStream
    /\ dec' = [dec EXCEPT ![i].avail = @ + 1]
    /\ UNCHANGED <<EnvFrame, now>>

Tick ==
    /\ Running
    /\ now < MaxTime
    /\ now' = now + 1
    /\ call' = NoCall
    /\ UNCHANGED <<session_id, current_stopper, pause_signal, audio_process,
                   ffmpeg_process, seek_time, duration, start_instant, is_paused,
                   buffer, source_width, source_height, stoppers, aud, thr, chan,
                   mode, previous_mode, dec, main_pc, buffer_lock, web, edit, applied, nav>>

\* ------------------------------------------------------- App (app.rs)

AppFrame == <<chan, now>>

\* the model explores only MaxSessions sessions and MaxAudio audio processes
WithinBounds(e) == \A x \in e.spawned : x[1] = "audio" => x[2] <= MaxAudio

\* App::stop_video
StopVideo == Install(stop(World))

\* variant: VideoEnded is honoured whatever session id it carries
HandleEventUnfenced ==
    /\ Running
    /\ chan # <<>>
    /\ chan' = Tail(chan)
    /\ LET event == Head(chan) IN
       IF event.type = "VideoEnded" /\ mode = "Video"
       THEN /\ StopVideo
            /\ mode' = "Normal"
       ELSE UNCHANGED <<engine_vars, mode>>
    /\ UNCHANGED <<previous_mode, now, call>>

\* App::handle_events, one iteration of `while let Ok(event) = rx.try_recv()`
HandleEvent ==
    /\ Running
    /\ chan # <<>>
    /\ chan' = Tail(chan)
    /\ LET event == Head(chan) IN
       IF event.type = "VideoEnded" /\ mode = "Video" /\ event.id = session_id
       THEN /\ StopVideo
            /\ mode' = "Normal"
       ELSE UNCHANGED <<engine_vars, mode>>
    /\ UNCHANGED <<previous_mode, now, call>>

\* KeyCode::Char('q') in Video mode
KeyQ ==
    /\ mode = "Video"
    /\ StopVideo
    /\ mode' = "Normal"
    /\ UNCHANGED <<previous_mode, AppFrame>>

\* KeyCode::Char('q') in Normal mode: on_key returns true, the main loop
\* breaks, main stops the video and returns
Quit ==
    /\ mode = "Normal"
    /\ StopVideo
    /\ mode' = "Exited"
    /\ UNCHANGED <<previous_mode, AppFrame>>

\* KeyCode::Char('i')
KeyI ==
    /\ mode \in {"Normal", "Video"}
    /\ previous_mode' = mode
    /\ mode' = "Insert"
    /\ call' = NoCall
    /\ UNCHANGED <<engine_vars, AppFrame>>

\* variant: Esc leaves Insert mode for Normal mode
KeyEscToNormal ==
    /\ mode = "Insert"
    /\ mode' = "Normal"
    /\ call' = NoCall
    /\ UNCHANGED <<engine_vars, previous_mode, AppFrame>>

\* handle_insert, KeyCode::Esc
KeyEsc ==
    /\ mode = "Insert"
    /\ mode' = previous_mode
    /\ call' = NoCall
    /\ UNCHANGED <<engine_vars, previous_mode, AppFrame>>

\* KeyCode::Char('p') while a session is running in Video mode
KeyPStop ==
    /\ mode = "Video"
    /\ current_stopper # 0
    /\ StopVideo
    /\ mode' = "Normal"
    /\ UNCHANGED <<previous_mode, AppFrame>>

\* KeyCode::Char('p') while no session is running
KeyPStart(size, audio_ok, ffmpeg_ok) ==
    /\ mode \in {"Normal", "Video"}
    /\ current_stopper = 0
    /\ session_id < MaxSessions
    /\ LET e == start(World, now, size[1], size[2], 0, audio_ok, ffmpeg_ok) IN
       WithinBounds(e) /\ Install(e)
    /\ mode' = "Video"
    /\ UNCHANGED <<previous_mode, AppFrame>>

\* KeyCode::Char(' ') if self.mode == AppMode::Video
KeySpace(sig_ok, audio_ok) ==
    /\ mode = "Video"
    /\ LET e == toggle_pause(World, now, sig_ok, audio_ok) IN
       WithinBounds(e) /\ Install(e)
    /\ UNCHANGED <<mode, previous_mode, AppFrame>>

\* KeyCode::Left / KeyCode::Right if self.mode == AppMode::Video
KeySeek(delta, size, audio_ok, ffmpeg_ok) ==
    /\ mode = "Video"
    /\ session_id < MaxSessions
    /\ LET e == seek(World, now, delta, size[1], size[2], audio_ok, ffmpeg_ok) IN
       WithinBounds(e) /\ Install(e)
    /\ UNCHANGED <<mode, previous_mode, AppFrame>>

KeyLeft(size, audio_ok, ffmpeg_ok) == KeySeek(-SeekDelta, size, audio_ok, ffmpeg_ok)

KeyRight(size, audio_ok, ffmpeg_ok) == KeySeek(SeekDelta, size, audio_ok, ffmpeg_ok)

\* App::trigger_fetch: WebEngine::fetch spawns a thread for the request (a
\* key that opens a page, or a prefetch); the engine is left alone
TriggerFetch ==
    /\ Running
    /\ web < MaxFetches
    /\ web' = web + 1
    /\ UNCHANGED <<engine_vars, chan, mode, previous_mode, now>>

\* a fetch thread has its response and sends the event for it; tx.send
\* blocks while the channel is full
FetchSend ==
    /\ Running
    /\ web > 0
    /\ Len(chan) < ChanCap
    /\ chan' = Append(chan, PageEvent)
    /\ web' = web - 1
    /\ UNCHANGED <<engine_vars, mode, previous_mode, now, call, main_pc, buffer_lock, edit, applied, nav>>

\* a prefetch fails: its thread ends without an event
FetchFail ==
    /\ Running
    /\ web > 0
    /\ web' = web - 1
    /\ UNCHANGED <<engine_vars, chan, mode, previous_mode, now, call, main_pc,
                   buffer_lock, edit, applied, nav>>

\* -------------------------------------------------------- specifications

\* Spec: the decode threads, the decoder pipes, the event channel and the
\* consumer, driven by the keys, a key being handled at any moment (the
\* position of the main loop is not followed: see LoopSpec).  ffplay and the kill command work, the
\* duration is unknown and the clock stands still: no thread reads any of
\* these, nor the seek offset, so Right (which differs from Left in the
\* offset alone) is left to EngineSpec.
ThreadStep(i) ==
    \/ ThreadLoopTop(i)
    \/ ThreadCheckPause(i)
    \/ ThreadRead(i)
    \/ ThreadPostRead(i)
    \/ ThreadCheckPause2(i)
    \/ ThreadCopy(i)
    \/ ThreadErr(i)
    \/ ThreadSend(i)

Next ==
    \/ HandleEvent /\ UNCHANGED <<main_pc, buffer_lock, web, edit, applied, nav>>
    \/ KeyQ /\ UNCHANGED <<call, main_pc, buffer_lock, web, edit, applied, nav>>
    \/ Quit /\ UNCHANGED <<call, main_pc, buffer_lock, web, edit, applied, nav>>
    \/ KeyPStop /\ UNCHANGED <<call, main_pc, buffer_lock, web, edit, applied, nav>>
    \/ \E size \in TermSizes, f \in BOOLEAN :
          KeyPStart(size, TRUE, f) /\ UNCHANGED <<call, main_pc, buffer_lock, web, edit, applied, nav>>
    \/ KeySpace(TRUE, TRUE) /\ UNCHANGED <<call, main_pc, buffer_lock, web, edit, applied, nav>>
    \/ \E size \in TermSizes, f \in BOOLEAN :
          KeyLeft(size, TRUE, f) /\ UNCHANGED <<call, main_pc, buffer_lock, web, edit, applied, nav>>
    \/ \E i \in Sessions : ThreadStep(i)
    \/ \E i \in Sessions : DecoderEmit(i)
    \/ \E i \in Sessions : DecoderExit(i)

InitUnknownDuration == Init /\ duration = 0

Spec == InitUnknownDuration /\ [][Next]_vars

\* EngineSpec: the facade thread alone, with every outcome of the spawns and
\* signals, every duration and a running clock; decode threads are created
\* but take no step.  `call` records the call just made on the engine.
EngineNext ==
    \/ /\ KeyQ
       /\ UNCHANGED <<main_pc, buffer_lock, web, edit, applied, nav>>
       /\ call' = Called("stop", <<"q">>, stop(World))
    \/ /\ Quit
       /\ UNCHANGED <<main_pc, buffer_lock, web, edit, applied, nav>>
       /\ call' = Called("stop", <<"exit">>, stop(World))
    \/ /\ KeyPStop
       /\ UNCHANGED <<main_pc, buffer_lock, web, edit, applied, nav>>
       /\ call' = Called("stop", <<"p">>, stop(World))
    \/ \E size \in TermSizes, a \in BOOLEAN, f \in BOOLEAN :
          /\ KeyPStart(size, a, f)
          /\ UNCHANGED <<main_pc, buffer_lock, web, edit, applied, nav>>
          /\ call' = Called("start", <<size[1], size[2], 0, a, f>>,
                            start(World, now, size[1], size[2], 0, a, f))
    \/ \E s \in BOOLEAN, a \in BOOLEAN :
          /\ KeySpace(s, a)
          /\ UNCHANGED <<main_pc, buffer_lock, web, edit, applied, nav>>
          /\ call' = Called("toggle_pause", <<s, a>>, toggle_pause(World, now, s, a))
    \/ \E size \in TermSizes, a \in BOOLEAN, f \in BOOLEAN :
          /\ KeyLeft(size, a, f)
          /\ UNCHANGED <<main_pc, buffer_lock, web, edit, applied, nav>>
          /\ call' = Called("seek", <<-SeekDelta, size[1], size[2], a, f>>,
                            seek(World, now, -SeekDelta, size[1], size[2], a, f))
    \/ \E size \in TermSizes, a \in BOOLEAN, f \in BOOLEAN :
          /\ KeyRight(size, a, f)
          /\ UNCHANGED <<main_pc, buffer_lock, web, edit, applied, nav>>
          /\ call' = Called("seek", <<SeekDelta, size[1], size[2], a, f>>,
                            seek(World, now, SeekDelta, size[1], size[2], a, f))
    \/ Tick

EngineSpec == Init /\ [][EngineNext]_vars

\* LoopSpec: as Spec, with the main loop followed: each iteration drains the
\* channel until try_recv finds it empty, then polls the keyboard for 10 ms
\* and handles at most one key: 'q' (stop, or quit), 'p' with no session
\* running (start) or Left (seek).  The main thread is scheduled fairly: no
\* step of it blocks, and the poll returns after 10 ms at the latest.
LoopFrame == <<engine_vars, chan, mode, previous_mode, now, call, buffer_lock, web, edit, applied, nav>>

\* variant: `if let Ok(event)` in place of `while let Ok(event)`: the drain
\* ends after any number of events
DrainDoneEarly ==
    /\ Running
    /\ main_pc = "events"
    /\ main_pc' = "key"
    /\ UNCHANGED LoopFrame

\* rx.try_recv() returns Err(Empty): handle_events returns
DrainDone ==
    /\ Running
    /\ main_pc = "events"
    /\ chan = <<>>
    /\ main_pc' = "key"
    /\ UNCHANGED LoopFrame

\* event::poll(10 ms) returns false: no key in this iteration
PollTimeout ==
    /\ Running
    /\ main_pc = "key"
    /\ main_pc' = "events"
    /\ UNCHANGED LoopFrame

\* the steps of the main thread
MainStep ==
    \/ main_pc = "events" /\ HandleEvent /\ UNCHANGED <<main_pc, buffer_lock, web, edit, applied, nav>>
    \/ DrainDone
    \/ main_pc = "key" /\ KeyQ /\ main_pc' = "events" /\ UNCHANGED <<call, buffer_lock, web, edit, applied, nav>>
    \/ main_pc = "key" /\ Quit /\ main_pc' = "events" /\ UNCHANGED <<call, buffer_lock, web, edit, applied, nav>>
    \/ \E size \in TermSizes, f \in BOOLEAN :
          main_pc = "key" /\ KeyPStart(size, TRUE, f)
             /\ main_pc' = "events" /\ UNCHANGED <<call, buffer_lock, web, edit, applied, nav>>
    \/ \E size \in TermSizes, f \in BOOLEAN :
          main_pc = "key" /\ KeyLeft(size, TRUE, f)
             /\ main_pc' = "events" /\ UNCHANGED <<call, buffer_lock, web, edit, applied, nav>>
    \/ PollTimeout

LoopNext ==
    \/ MainStep
    \/ \E i \in Sessions : ThreadStep(i)
    \/ \E i \in Sessions : DecoderEmit(i)
    \/ \E i \in Sessions : DecoderExit(i)

LoopSpec == InitUnknownDuration /\ [][LoopNext]_vars /\ WF_vars(MainStep)

\* LockSpec: as LoopSpec, with the Mutex of the frame buffer followed.  A
\* decode thread takes it in one step and checks, copies and releases in the
\* next.  The main thread, once the drain is over ("key"), draws: in Video
\* mode render_video_mask takes the Mutex ("drawing") and releases it after
\* the clone; then it polls ("poll") and handles at most one key: 'p' with
\* no session running, space or Left.  start takes the Mutex for the resize
\* after it has cancelled the old session, and what it did before is read by
\* no thread that holds the Mutex: the call is one step, taken when the
\* Mutex is free.  The terminal is 2x1 at a 'p' and 2x2 at a Left, so that
\* a session follows one of its own frame size as well as one of another.
MainThread == -1

\* let b = app.engine.buffer.lock().unwrap()
RenderLock ==
    /\ Running
    /\ main_pc = "key"
    /\ mode = "Video"
    /\ buffer_lock = 0
    /\ buffer_lock' = MainThread
    /\ main_pc' = "drawing"
    /\ UNCHANGED <<engine_vars, chan, mode, previous_mode, now, call, web, edit, applied, nav>>

\* b.len() == 0 => return, else (b.clone(), w, h): the guard is dropped
RenderUnlock ==
    /\ Running
    /\ main_pc = "drawing"
    /\ buffer_lock = MainThread
    /\ buffer_lock' = 0
    /\ main_pc' = "poll"
    /\ UNCHANGED <<engine_vars, chan, mode, previous_mode, now, call, web, edit, applied, nav>>

\* ui: outside Video mode the page text is drawn, the buffer is not touched
RenderPage ==
    /\ Running
    /\ main_pc = "key"
    /\ mode # "Video"
    /\ main_pc' = "poll"
    /\ UNCHANGED LoopFrame

LockMainStep ==
    \/ main_pc = "events" /\ HandleEvent /\ UNCHANGED <<main_pc, buffer_lock, web, edit, applied, nav>>
    \/ DrainDone
    \/ RenderLock
    \/ RenderUnlock
    \/ RenderPage
    \/ main_pc = "poll" /\ buffer_lock = 0 /\ KeyPStart(<<2, 1>>, TRUE, TRUE)
          /\ main_pc' = "events" /\ UNCHANGED <<call, buffer_lock, web, edit, applied, nav>>
    \/ main_pc = "poll" /\ KeySpace(TRUE, TRUE)
          /\ main_pc' = "events" /\ UNCHANGED <<call, buffer_lock, web, edit, applied, nav>>
    \/ main_pc = "poll" /\ buffer_lock = 0 /\ KeyLeft(<<2, 2>>, TRUE, TRUE)
          /\ main_pc' = "events" /\ UNCHANGED <<call, buffer_lock, web, edit, applied, nav>>
    \/ Running /\ main_pc = "poll" /\ main_pc' = "events" /\ UNCHANGED LoopFrame

LockThreadStep(i) ==
    \/ ThreadLoopTop(i)
    \/ ThreadCheckPause(i)
    \/ ThreadRead(i)
    \/ ThreadPostRead(i)
    \/ ThreadCheckPause2(i)
    \/ ThreadLock(i)
    \/ ThreadCopyLocked(i)
    \/ ThreadErr(i)
    \/ ThreadSend(i)

LockNext ==
    \/ LockMainStep
    \/ \E i \in Sessions : LockThreadStep(i)
    \/ \E i \in Sessions : DecoderEmit(i)
    \/ \E i \in Sessions : DecoderExit(i)

\* whoever holds the Mutex is scheduled again
LockSpec ==
    /\ InitUnknownDuration
    /\ [][LockNext]_vars
    /\ WF_vars(RenderUnlock)
    /\ \A i \in Sessions : WF_vars(ThreadCopyLocked(i))

\* ChanSpec: the channel with all its producers.  As LockSpec, with 'p' the
\* only key that drives the engine (a session is started once the one
\* before it has ended), and with the fetch threads: a key may start a
\* fetch, whose thread sends one event, or none, whenever its request is
\* over.
ChanMainStep ==
    \/ main_pc = "events" /\ HandleEvent /\ UNCHANGED <<main_pc, buffer_lock, web, edit, applied, nav>>
    \/ DrainDone
    \/ RenderLock
    \/ RenderUnlock
    \/ RenderPage
    \/ main_pc = "poll" /\ buffer_lock = 0 /\ KeyPStart(<<2, 1>>, TRUE, TRUE)
          /\ main_pc' = "events" /\ UNCHANGED <<call, buffer_lock, web, edit, applied, nav>>
    \/ main_pc = "poll" /\ TriggerFetch
          /\ main_pc' = "events" /\ UNCHANGED <<call, buffer_lock, edit, applied, nav>>
    \/ Running /\ main_pc = "poll" /\ main_pc' = "events" /\ UNCHANGED LoopFrame

ChanNext ==
    \/ ChanMainStep
    \/ FetchSend
    \/ FetchFail
    \/ \E i \in Sessions : LockThreadStep(i)
    \/ \E i \in Sessions : DecoderEmit(i)
    \/ \E i \in Sessions : DecoderExit(i)

\* App::new fetches the start page and prefetches every page of the demo
ChanInit ==
    /\ Constructed
    /\ duration = 0
    /\ web \in 1..MaxFetches
    /\ edit = NoEdit
    /\ applied = NoFrames /\ nav = NoNav

ChanSpec == ChanInit /\ [][ChanNext]_vars

\* CancelSpec: as LockSpec, with 'q' in Video mode (stop) among the keys,
\* and with every thread scheduled fairly: the main thread always gets to
\* its next step, a decode thread takes a step that stays possible, and a
\* thread waiting for the Mutex gets it if it is free again and again (the
\* main thread sleeps in its 10 ms poll between two draws).  Nothing is
\* assumed of a decoder: it may stay silent for ever.
CancelMainStep ==
    \/ LockMainStep
    \/ main_pc = "poll" /\ KeyQ
          /\ main_pc' = "events" /\ UNCHANGED <<call, buffer_lock, web, edit, applied, nav>>

CancelNext ==
    \/ CancelMainStep
    \/ \E i \in Sessions : LockThreadStep(i)
    \/ \E i \in Sessions : DecoderEmit(i)
    \/ \E i \in Sessions : DecoderExit(i)

CancelSpec ==
    /\ InitUnknownDuration
    /\ [][CancelNext]_vars
    /\ WF_vars(CancelMainStep)
    /\ \A i \in Sessions : WF_vars(LockThreadStep(i)) /\ SF_vars(ThreadLock(i))

\* TextSpec: the input line alone.  It starts as any string of up to MaxLen
\* chars with the cursor on a grapheme boundary, and each step is one call
\* of a function of text.rs on it (the keys of Insert mode); `edit` keeps
\* the call, its argument and result, and the line before it and before the
\* call that preceded it.
Apply(op, c, r) ==
    /\ edit' = [text |-> r.text, cursor |-> r.cursor, op |-> op, c |-> c,
                ret |-> r.ret,
                pre |-> [text |-> edit.text, cursor |-> edit.cursor,
                         op |-> edit.op, c |-> edit.c,
                         pre |-> [text |-> edit.pre.text,
                                  cursor |-> edit.pre.cursor]]]
    /\ UNCHANGED <<engine_vars, chan, mode, previous_mode, now, call, main_pc,
                   buffer_lock, web, applied, nav>>

InsertGrapheme(c) ==
    /\ Len(edit.text) < MaxLen
    /\ Apply("insert_grapheme", c, insert_grapheme(edit.text, edit.cursor, c))

DeletePrevGrapheme ==
    Apply("delete_prev_grapheme", "", delete_prev_grapheme(edit.text, edit.cursor))

DeleteNextGrapheme ==
    Apply("delete_next_grapheme", "", delete_next_grapheme(edit.text, edit.cursor))

DeleteWord == Apply("delete_word", "", delete_word(edit.text, edit.cursor))

MoveLeftGrapheme ==
    Apply("move_left_grapheme", "", move_left_grapheme(edit.text, edit.cursor))

MoveRightGrapheme ==
    Apply("move_right_grapheme", "", move_right_grapheme(edit.text, edit.cursor))

MoveWordBackward ==
    Apply("move_word_backward", "", move_word_backward(edit.text, edit.cursor))

MoveWordForward ==
    Apply("move_word_forward", "", move_word_forward(edit.text, edit.cursor))

TextInit ==
    /\ Constructed
    /\ web = 0
    /\ applied = NoFrames /\ nav = NoNav
    /\ \E text \in Strings :
          \E cursor \in grapheme_indices(text) \cup {StrLen(text)} :
             edit = [NoEdit EXCEPT !.text = text, !.cursor = cursor,
                                   !.pre.text = text, !.pre.cursor = cursor,
                                   !.pre.pre.text = text, !.pre.pre.cursor = cursor]

TextNext ==
    \/ \E c \in Chars : InsertGrapheme(c)
    \/ DeletePrevGrapheme
    \/ DeleteNextGrapheme
    \/ DeleteWord
    \/ MoveLeftGrapheme
    \/ MoveRightGrapheme
    \/ MoveWordBackward
    \/ MoveWordForward

TextSpec == TextInit /\ [][TextNext]_vars

\* SurfaceSpec: a session from its start to the end of its stream, with the
\* keys that leave it alone: 'p' with no session running (start), 'i'
\* (Insert mode) and Esc (back to the mode before).  Every thread is
\* scheduled fairly, a decoder reaches the end of its stream, and whoever
\* enters Insert mode leaves it again.
SurfaceKeyEsc ==
    main_pc = "key" /\ KeyEsc /\ main_pc' = "events" /\ UNCHANGED <<buffer_lock, web, edit, applied, nav>>

SurfaceMainStep ==
    \/ main_pc = "events" /\ HandleEvent /\ UNCHANGED <<main_pc, buffer_lock, web, edit, applied, nav>>
    \/ DrainDone
    \/ main_pc = "key" /\ KeyPStart(<<2, 1>>, TRUE, TRUE)
          /\ main_pc' = "events" /\ UNCHANGED <<call, buffer_lock, web, edit, applied, nav>>
    \/ main_pc = "key" /\ KeyI
          /\ main_pc' = "events" /\ UNCHANGED <<buffer_lock, web, edit, applied, nav>>
    \/ SurfaceKeyEsc
    \/ PollTimeout

SurfaceNext ==
    \/ SurfaceMainStep
    \/ \E i \in Sessions : ThreadStep(i)
    \/ \E i \in Sessions : DecoderEmit(i)
    \/ \E i \in Sessions : DecoderExit(i)

SurfaceSpec ==
    /\ InitUnknownDuration
    /\ [][SurfaceNext]_vars
    /\ WF_vars(SurfaceMainStep)
    /\ SF_vars(SurfaceKeyEsc)
    /\ \A i \in Sessions : WF_vars(ThreadStep(i)) /\ WF_vars(DecoderExit(i))

\* FrameSpec: the frames of a session in their order.  As LockSpec, with
\* streams of up to MaxStream frames and with each copy noted in `applied`;
\* the keys are 'p' with no session running (start), space (pause and
\* resume) and Left (seek), on a terminal of 2x1, so that the thread of a
\* session may still be at its copy when the next session has begun.
FrameMainStep ==
    \/ main_pc = "events" /\ HandleEvent
          /\ UNCHANGED <<main_pc, buffer_lock, web, edit, applied, nav>>
    \/ DrainDone
    \/ RenderLock
    \/ RenderUnlock
    \/ RenderPage
    \/ main_pc = "poll" /\ buffer_lock = 0 /\ KeyPStart(<<2, 1>>, TRUE, TRUE)
          /\ main_pc' = "events" /\ UNCHANGED <<call, buffer_lock, web, edit, applied, nav>>
    \/ main_pc = "poll" /\ KeySpace(TRUE, TRUE)
          /\ main_pc' = "events" /\ UNCHANGED <<call, buffer_lock, web, edit, applied, nav>>
    \/ main_pc = "poll" /\ buffer_lock = 0 /\ KeyLeft(<<2, 1>>, TRUE, TRUE)
          /\ main_pc' = "events" /\ UNCHANGED <<call, buffer_lock, web, edit, applied, nav>>
    \/ Running /\ main_pc = "poll" /\ main_pc' = "events" /\ UNCHANGED LoopFrame

FrameThreadStep(i) ==
    \/ ThreadLoopTop(i)
    \/ ThreadCheckPause(i)
    \/ ThreadRead(i)
    \/ ThreadPostRead(i)
    \/ ThreadCheckPause2(i)
    \/ ThreadLock(i)
    \/ ThreadCopyRecorded(i)
    \/ ThreadErr(i)
    \/ ThreadSend(i)

FrameNext ==
    \/ FrameMainStep
    \/ \E i \in Sessions : FrameThreadStep(i)
    \/ \E i \in Sessions : DecoderEmitStream(i)
    \/ \E i \in Sessions : DecoderExit(i)

FrameSpec == InitUnknownDuration /\ [][FrameNext]_vars

\* ApiSpec: the public methods of VideoEngine called in any order by the
\* owner of the engine, with every outcome of the spawns and signals and a
\* running clock; no method looks at the application mode, which is left as
\* it is.  Decode threads are created but take no step.
ApiStart(size, audio_ok, ffmpeg_ok) ==
    /\ Running
    /\ session_id < MaxSessions
    /\ LET e == start(World, now, size[1], size[2], 0, audio_ok, ffmpeg_ok) IN
       /\ WithinBounds(e)
       /\ Install(e)
       /\ call' = Called("start", <<size[1], size[2], 0, audio_ok, ffmpeg_ok>>, e)
    /\ UNCHANGED <<mode, previous_mode, AppFrame, main_pc, buffer_lock, web, edit, applied, nav>>

ApiStop ==
    /\ Running
    /\ Install(stop(World))
    /\ call' = Called("stop", <<>>, stop(World))
    /\ UNCHANGED <<mode, previous_mode, AppFrame, main_pc, buffer_lock, web, edit, applied, nav>>

ApiTogglePause(sig_ok, audio_ok) ==
    /\ Running
    /\ LET e == toggle_pause(World, now, sig_ok, audio_ok) IN
       /\ WithinBounds(e)
       /\ Install(e)
       /\ call' = Called("toggle_pause", <<sig_ok, audio_ok>>, e)
    /\ UNCHANGED <<mode, previous_mode, AppFrame, main_pc, buffer_lock, web, edit, applied, nav>>

ApiSeek(delta, size, audio_ok, ffmpeg_ok) ==
    /\ Running
    /\ session_id < MaxSessions
    /\ LET e == seek(World, now, delta, size[1], size[2], audio_ok, ffmpeg_ok) IN
       /\ WithinBounds(e)
       /\ Install(e)
       /\ call' = Called("seek", <<delta, size[1], size[2], audio_ok, ffmpeg_ok>>, e)
    /\ UNCHANGED <<mode, previous_mode, AppFrame, main_pc, buffer_lock, web, edit, applied, nav>>

ApiNext ==
    \/ \E size \in TermSizes, a \in BOOLEAN, f \in BOOLEAN : ApiStart(size, a, f)
    \/ ApiStop
    \/ \E s \in BOOLEAN, a \in BOOLEAN : ApiTogglePause(s, a)
    \/ \E delta \in {-SeekDelta, SeekDelta}, size \in TermSizes, a \in BOOLEAN, f \in BOOLEAN :
          ApiSeek(delta, size, a, f)
    \/ Tick

ApiSpec == Init /\ [][ApiNext]_vars

\* handle_insert, KeyCode::Enter: back to the mode 'i' was pressed in, and
\* the url typed is fetched
KeyEnter ==
    /\ mode = "Insert"
    /\ web < MaxEntered
    /\ mode' = previous_mode
    /\ web' = web + 1
    /\ call' = NoCall
    /\ UNCHANGED <<engine_vars, previous_mode, AppFrame>>

\* ModeSpec: as Spec, with Insert mode entered and left ('i', Esc, Enter),
\* both seek keys, and `call` recording the call a key makes on the engine;
\* the fetch started by Enter delivers its page event or fails.
ModeKey ==
    \/ /\ KeyQ
       /\ call' = Called("stop", <<"q">>, stop(World))
       /\ UNCHANGED <<main_pc, buffer_lock, web, edit, applied, nav>>
    \/ /\ Quit
       /\ call' = Called("stop", <<"exit">>, stop(World))
       /\ UNCHANGED <<main_pc, buffer_lock, web, edit, applied, nav>>
    \/ /\ KeyPStop
       /\ call' = Called("stop", <<"p">>, stop(World))
       /\ UNCHANGED <<main_pc, buffer_lock, web, edit, applied, nav>>
    \/ \E size \in TermSizes, f \in BOOLEAN :
          /\ KeyPStart(size, TRUE, f)
          /\ call' = Called("start", <<size[1], size[2], 0, TRUE, f>>,
                            start(World, now, size[1], size[2], 0, TRUE, f))
          /\ UNCHANGED <<main_pc, buffer_lock, web, edit, applied, nav>>
    \/ /\ KeySpace(TRUE, TRUE)
       /\ call' = Called("toggle_pause", <<TRUE, TRUE>>, toggle_pause(World, now, TRUE, TRUE))
       /\ UNCHANGED <<main_pc, buffer_lock, web, edit, applied, nav>>
    \/ \E delta \in {-SeekDelta, SeekDelta}, size \in TermSizes, f \in BOOLEAN :
          /\ KeySeek(delta, size, TRUE, f)
          /\ call' = Called("seek", <<delta, size[1], size[2], TRUE, f>>,
                            seek(World, now, delta, size[1], size[2], TRUE, f))
          /\ UNCHANGED <<main_pc, buffer_lock, web, edit, applied, nav>>
    \/ KeyI /\ UNCHANGED <<main_pc, buffer_lock, web, edit, applied, nav>>
    \/ KeyEsc /\ UNCHANGED <<main_pc, buffer_lock, web, edit, applied, nav>>
    \/ KeyEnter /\ UNCHANGED <<main_pc, buffer_lock, edit, applied, nav>>

ModeNext ==
    \/ HandleEvent /\ UNCHANGED <<main_pc, buffer_lock, web, edit, applied, nav>>
    \/ ModeKey
    \/ FetchSend
    \/ FetchFail
    \/ \E i \in Sessions : ThreadStep(i)
    \/ \E i \in Sessions : DecoderEmit(i)
    \/ \E i \in Sessions : DecoderExit(i)

ModeSpec == InitUnknownDuration /\ [][ModeNext]_vars

\* text.rs, clamp_cursor
clamp_cursor(text, pos) ==
    LET p == IF pos < StrLen(text) THEN pos ELSE StrLen(text)
    IN  IF text = <<>> THEN 0
        ELSE IF is_char_boundary(text, p) THEN p
        ELSE prev_grapheme_boundary(text, p)

\* handle_insert, Ctrl+U: url_input.drain(..cursor_pos), cursor_pos = 0
kill_to_start(text, cursor) ==
    Edited(IF cursor > 0 THEN Drain(text, 0, cursor) ELSE text, 0, TRUE)

\* handle_insert, Ctrl+K: url_input.truncate(clamp_cursor(..))
kill_to_end(text, cursor) ==
    LET c == clamp_cursor(text, cursor)
    IN  Edited(Slice(text, 0, c), c, TRUE)

\* App::delete_word: nothing with the cursor at the start
app_delete_word(text, cursor) ==
    IF cursor = 0 THEN Edited(text, cursor, TRUE) ELSE delete_word(text, cursor)

\* InputSpec: url_input and cursor_pos under every key of handle_insert and
\* every replacement of the line by a page.  The line starts as the start
\* url with the cursor at its end; `edit` keeps the key and the line it
\* acted on, and nothing of what came before.
ApplyInput(op, c, r) ==
    /\ edit' = [text |-> r.text, cursor |-> r.cursor, op |-> op, c |-> c,
                ret |-> r.ret,
                pre |-> [text |-> edit.text, cursor |-> edit.cursor,
                         op |-> "none", c |-> "",
                         pre |-> [text |-> <<>>, cursor |-> 0]]]
    /\ UNCHANGED <<engine_vars, chan, mode, previous_mode, now, call, main_pc,
                   buffer_lock, web, applied, nav>>

\* variant: the line is replaced and the cursor stays where it was
ReplaceUrlInputKeepsCursor(url) ==
    ApplyInput("set_url_input", "", Edited(url, edit.cursor, TRUE))

\* url_input = url; cursor_pos = url_input.len(): the arrival of a page
\* (PageLoaded), and in the same two statements trigger_fetch of a page that
\* is not a prefetch (app.rs:122-123), apply_prefetch (app.rs:512-513) and
\* apply_demo_page (app.rs:551-552)
ReplaceUrlInput(url) ==
    ApplyInput("set_url_input", "", Edited(url, StrLen(url), TRUE))

\* Enter: trigger_fetch of the line itself
InputEnter == ApplyInput("enter", "", Edited(edit.text, StrLen(edit.text), TRUE))

\* Backspace, Ctrl+H
InputBackspace ==
    ApplyInput("delete_prev_grapheme", "", delete_prev_grapheme(edit.text, edit.cursor))

\* Delete
InputDelete ==
    ApplyInput("delete_next_grapheme", "", delete_next_grapheme(edit.text, edit.cursor))

\* Ctrl+W, Alt+Backspace, Ctrl+Alt+H
InputDeleteWord ==
    ApplyInput("delete_word", "", app_delete_word(edit.text, edit.cursor))

InputCtrlU == ApplyInput("ctrl_u", "", kill_to_start(edit.text, edit.cursor))

InputCtrlK == ApplyInput("ctrl_k", "", kill_to_end(edit.text, edit.cursor))

\* Ctrl+A, Home
InputHome == ApplyInput("home", "", Edited(edit.text, 0, TRUE))

\* Ctrl+E, End
InputEnd == ApplyInput("end", "", Edited(edit.text, StrLen(edit.text), TRUE))

\* Left, Ctrl+Left
InputLeft(word) ==
    IF word
    THEN ApplyInput("move_word_backward", "", move_word_backward(edit.text, edit.cursor))
    ELSE ApplyInput("move_left_grapheme", "", move_left_grapheme(edit.text, edit.cursor))

\* Right, Ctrl+Right
InputRight(word) ==
    IF word
    THEN ApplyInput("move_word_forward", "", move_word_forward(edit.text, edit.cursor))
    ELSE ApplyInput("move_right_grapheme", "", move_right_grapheme(edit.text, edit.cursor))

\* a char with no modifier but Shift
InputChar(c) ==
    /\ Len(edit.text) < MaxLen
    /\ ApplyInput("insert_grapheme", c, insert_grapheme(edit.text, edit.cursor, c))

InputInit ==
    /\ Constructed
    /\ web = 0
    /\ applied = NoFrames /\ nav = NoNav
    /\ \E text \in Strings :
          edit = [NoEdit EXCEPT !.text = text, !.cursor = StrLen(text),
                                !.pre.text = text, !.pre.cursor = StrLen(text)]

InputNext ==
    \/ InputEnter
    \/ InputBackspace
    \/ InputDelete
    \/ InputDeleteWord
    \/ InputCtrlU
    \/ InputCtrlK
    \/ InputHome
    \/ InputEnd
    \/ \E word \in BOOLEAN : InputLeft(word)
    \/ \E word \in BOOLEAN : InputRight(word)
    \/ \E c \in Chars : InputChar(c)
    \/ \E url \in Strings : ReplaceUrlInput(url)

InputSpec == InputInit /\ [][InputNext]_vars

\* HistorySpec: the history under page loads, prefetches and the keys 'h',
\* 'l' and 'r'.  App::new starts the fetch of the start page.  A fetch
\* thread delivers the url it resolved against the page that was current
\* when it started (web.rs:40-47), which need not be the url asked for: any
\* url; an event is handled as it is delivered.
NavStep(op, url, is_history_nav, n) ==
    /\ Running
    /\ InFlight(n) <= MaxFetches
    /\ Len(n.history) <= MaxHistory
    /\ nav' = [n EXCEPT !.op = op, !.url = url, !.is_history_nav = is_history_nav,
                        !.was = [history |-> nav.history,
                                 history_index |-> nav.history_index]]
    /\ web' = InFlight(n)
    /\ UNCHANGED <<engine_vars, chan, mode, previous_mode, now, call, main_pc,
                   buffer_lock, edit, applied>>

\* a link followed in hint mode, a url entered: trigger_fetch(u, false, false)
NavFetch ==
    NavStep("fetch", "none", FALSE, trigger_fetch(nav, FALSE, FALSE))

\* random_walk: auto_scroll == AutoScroll::RandomWalk and the page has a link
NavPageLoaded(url, is_history_nav, random_walk) ==
    /\ IF is_history_nav THEN nav.flying.hist > 0 ELSE nav.flying.page > 0
    /\ LET landed == IF is_history_nav THEN [nav EXCEPT !.flying.hist = @ - 1]
                     ELSE [nav EXCEPT !.flying.page = @ - 1]
       IN  NavStep("PageLoaded", url, is_history_nav,
                   trigger_random_prefetch(page_loaded(landed, url, is_history_nav),
                                           random_walk))

NavPrefetchReady(url, demo) ==
    /\ nav.flying.pre > 0
    /\ NavStep("PrefetchReady", url, FALSE,
               prefetch_ready([nav EXCEPT !.flying.pre = @ - 1], url, demo))

\* the request fails: BgEvent::Error, or nothing for a prefetch
NavFetchError(kind) ==
    /\ nav.flying[kind] > 0
    /\ NavStep("Error", "none", FALSE, [nav EXCEPT !.flying[kind] = @ - 1])

NavKeyH ==
    /\ mode \in {"Normal", "Video"}
    /\ NavStep("h", "none", FALSE, history_back(nav))

NavKeyL ==
    /\ mode \in {"Normal", "Video"}
    /\ NavStep("l", "none", FALSE, history_forward(nav))

NavKeyR(found) ==
    /\ mode \in {"Normal", "Video"}
    /\ NavStep("r", "none", FALSE, apply_prefetch(nav, found))

HistoryInit ==
    /\ Constructed
    /\ duration = 0
    /\ edit = NoEdit
    /\ applied = NoFrames
    /\ nav = trigger_fetch(NoNav, FALSE, FALSE)
    /\ web = 1

HistoryNext ==
    \/ NavFetch
    \/ \E url \in Urls, h \in BOOLEAN, w \in BOOLEAN : NavPageLoaded(url, h, w)
    \/ \E url \in Urls, demo \in BOOLEAN : NavPrefetchReady(url, demo)
    \/ \E kind \in {"page", "hist", "pre"} : NavFetchError(kind)
    \/ NavKeyH
    \/ NavKeyL
    \/ \E found \in BOOLEAN : NavKeyR(found)

HistorySpec == HistoryInit /\ [][HistoryNext]_vars

\* ------------------------------------------------------------- properties

\* C1: when the consumer drains a VideoEnded(id) event whose id is not the
\* engine's current session_id, the event is discarded: the mode, the
\* engine's processes, its cancel handle, seek_time and the pause state (and
\* every other field of the engine) are the same after the step as before.
C1_StaleEventDiscarded ==
    [][(/\ chan # <<>>
        /\ chan' = Tail(chan)
        /\ Head(chan).type = "VideoEnded"
        /\ Head(chan).id # session_id)
       => UNCHANGED <<mode, previous_mode, engine_vars>>]_vars

\* a newer session is playing and the event of an older one is next in the queue
C1_StaleEventPending ==
    /\ chan # <<>>
    /\ Head(chan).type = "VideoEnded"
    /\ Head(chan).id # session_id
    /\ mode = "Video"
    /\ current_stopper = session_id
    /\ ffmpeg_process = session_id

\* C2: once start/seek has superseded a session, no frame read by that
\* session's decode thread is copied into the frame buffer: the buffer, which
\* every start zeroes, holds zeroes or a frame of the current session.
C2_NoFrameOfSupersededSession == buffer.sess \in {0, session_id}

C4_CopyOnlyIfLengthMatches ==
    /\ [][\A i \in Sessions :
            (thr[i].pc = "copy" /\ thr'[i] # thr[i])
            => IF buffer.len = thr[i].size
               THEN buffer' = [len |-> thr[i].size, sess |-> i,
                               frame |-> thr[i].nread]
               ELSE /\ buffer' = buffer
                    /\ thr'[i].pc = "done"
                    /\ chan' = chan]_vars
    /\ [][\A i \in Sessions : thr[i].pc = "done" => thr'[i] = thr[i]]_vars
    /\ [][(buffer' # buffer /\ session_id' = session_id)
          => \E i \in Sessions :
                /\ thr[i].pc = "copy"
                /\ thr[i].size = buffer.len
                /\ buffer'.len = buffer.len]_vars

\* a thread holds the lock on a buffer that a later start has resized
C4_LockedOnResizedBuffer ==
    \E i \in Sessions :
        /\ thr[i].pc = "copy"
        /\ thr[i].size # buffer.len
        /\ i # session_id

\* C5: after a seek with a non-negative delta the playback position
\* (seek_time) is in [0, duration) when the duration is known (> 0), and in
\* [0, infinity) when it is not: never negative, never equal to the duration.
C5_SeekWithinDuration ==
    (call.op = "seek" /\ call.args[1] >= 0)
    => /\ seek_time >= 0
       /\ duration > 0 => seek_time < duration

\* C6: a seek whose target (current position + delta) is below 0 starts the
\* next session at offset exactly 0, and every seek, clamped or not, raises
\* the session id by exactly 1.
C6_SeekBackwardClampsToZero ==
    call.op = "seek"
    => LET elapsed == IF call.pre.is_paused THEN 0
                      ELSE call.at - call.pre.start_instant
           target == call.pre.seek_time + elapsed + call.args[1]
       IN  /\ session_id = call.pre.session_id + 1
           /\ target < 0 => seek_time = 0

\* a seek to the left, from less than five seconds into the video, was made
C6_SoughtBeforeStart ==
    /\ call.op = "seek"
    /\ call.pre.seek_time + (call.at - call.pre.start_instant) + call.args[1] < 0
    /\ ~call.pre.is_paused
    /\ call.pre.session_id = 1
    /\ seek_time = 0

\* C7: with a known duration (> 0), a seek whose target (current position +
\* delta) exceeds the duration starts the next session at exactly the
\* duration minus one second, below the duration.
C7_SeekForwardClampsBelowEnd ==
    (call.op = "seek" /\ duration > 0)
    => LET elapsed == IF call.pre.is_paused THEN 0
                      ELSE call.at - call.pre.start_instant
           target == call.pre.seek_time + elapsed + call.args[1]
       IN  target > duration
           => /\ seek_time = duration - TicksPerSec
              /\ seek_time < duration

\* a seek to the right was made past the end of a five-second video
C7_SoughtPastEnd ==
    /\ call.op = "seek"
    /\ duration = SeekSeconds * TicksPerSec
    /\ call.args[1] > 0
    /\ ~call.pre.is_paused
    /\ call.pre.seek_time + (call.at - call.pre.start_instant) + call.args[1]
          > duration
    /\ seek_time = duration - TicksPerSec

\* C8: a toggle_pause (the pause, and the resume after it) leaves the session
\* id unchanged, and when the engine holds an audio process and the signal to
\* it (STOP on pause, CONT on resume) succeeds, the call spawns no process,
\* terminates none, and the audio handle after it is the one before it.
C8_PauseResumeKeepsAudio ==
    call.op = "toggle_pause"
    => /\ session_id = call.pre.session_id
       /\ (call.pre.audio_process # 0 /\ call.args[1])
          => /\ audio_process = call.pre.audio_process
             /\ call.spawned = {}
             /\ call.killed = {}
             /\ aud[audio_process].st = IF is_paused THEN "stopped" ELSE "running"

\* the resume of a session whose audio process was stopped by the pause (a
\* paused engine holds an audio handle only if the STOP signal succeeded),
\* with a successful CONT signal
C8_ResumedWithSameAudio ==
    /\ call.op = "toggle_pause"
    /\ call.pre.is_paused
    /\ ~is_paused
    /\ call.args[1]
    /\ call.pre.audio_process # 0
    /\ audio_process = call.pre.audio_process
    /\ call.signals = {<<"CONT", "audio", audio_process>>}

\* C9: a stop made when no session is active (before any start, or after a
\* previous stop) spawns no process, signals none, terminates none, and
\* leaves every field of the engine (session_id, buffer, seek_time, pause
\* state among them) as it was.
C9_StopWithoutSessionIsNoOp ==
    (call.op = "stop" /\ call.pre.current_stopper = 0)
    => /\ Fields(World) = call.pre
       /\ call.spawned = {}
       /\ call.killed = {}
       /\ call.signals = {}

\* the stop at exit, after an earlier stop had ended the only session so far
C9_StoppedAfterStop ==
    /\ call.op = "stop"
    /\ call.pre.current_stopper = 0
    /\ call.pre.session_id = 1
    /\ stoppers[1]

\* C10: stop is idempotent: in the state a stop leaves, a second stop changes
\* no field of the engine, sets no cancel flag, and terminates, signals and
\* spawns no process.
C10_StopIdempotent ==
    call.op = "stop"
    => LET e == stop(World) IN
       /\ Fields(e) = Fields(World)
       /\ e.stoppers = stoppers
       /\ e.aud = aud
       /\ e.dec = dec
       /\ e.thr = thr
       /\ e.killed = {}
       /\ e.signals = {}
       /\ e.spawned = {}

\* a stop of a paused session that terminated both of its processes
C10_StoppedPausedSession ==
    /\ call.op = "stop"
    /\ call.pre.is_paused
    /\ Cardinality(call.killed) = 2
    /\ ~is_paused
    /\ current_stopper = 0

\* C11: after a stop, from whatever state it was called in, the cancel flag
\* of the session that was current is set and the engine holds no flag, the
\* decoder and the audio process it held have been terminated and both
\* handles are empty, seek_time is 0, is_paused and the shared pause flag
\* are false, and session_id and the frame buffer are as before the call.
C11_StopResetsEngine ==
    call.op = "stop"
    => /\ current_stopper = 0
       /\ call.pre.current_stopper # 0 => stoppers[call.pre.current_stopper]
       /\ audio_process = 0
       /\ ffmpeg_process = 0
       /\ call.pre.audio_process # 0
          => /\ aud[call.pre.audio_process].st = "dead"
             /\ <<"audio", call.pre.audio_process>> \in call.killed
       /\ call.pre.ffmpeg_process # 0
          => /\ dec[call.pre.ffmpeg_process].st = "dead"
             /\ <<"ffmpeg", call.pre.ffmpeg_process>> \in call.killed
       /\ seek_time = 0
       /\ ~is_paused
       /\ ~pause_signal
       /\ session_id = call.pre.session_id
       /\ buffer = call.pre.buffer

\* a stop of a playing session that held both processes, away from offset 0
C11_StoppedPlayingSession ==
    /\ call.op = "stop"
    /\ call.pre.current_stopper # 0
    /\ ~call.pre.is_paused
    /\ call.pre.seek_time # 0
    /\ call.pre.audio_process # 0
    /\ call.pre.ffmpeg_process # 0
    /\ stoppers[call.pre.current_stopper]

\* C12: after a start (called directly, or by seek with the offset seek
\* computed), from a playing, paused or idle state: the flag of the new
\* session is current and unset, is_paused and the pause flag are false,
\* seek_time is the offset s handed to start, the wall-clock anchor is the
\* time of the call, every process the call spawned was given the offset s,
\* and when both spawns succeed these are the audio process and the decoder
\* whose handles the engine now holds.
C12_StartSetsSession ==
    call.op \in {"start", "seek"}
    => /\ session_id > call.pre.session_id
       /\ current_stopper = session_id
       /\ ~stoppers[session_id]
       /\ ~is_paused
       /\ ~pause_signal
       /\ call.op = "start" => seek_time = call.args[3]
       /\ start_instant = call.at
       /\ \A x \in call.spawned : x[3] = FormatSeek(seek_time)
       /\ (call.args[4] /\ call.args[5])
          => call.spawned = {<<"audio", audio_process, FormatSeek(seek_time)>>,
                             <<"ffmpeg", ffmpeg_process, FormatSeek(seek_time)>>}

\* a seek made while paused, both spawns succeeding, to an offset other than 0
C12_StartedFromPause ==
    /\ call.op = "seek"
    /\ call.pre.is_paused
    /\ call.pre.pause_signal
    /\ call.args[4]
    /\ call.args[5]
    /\ seek_time > 0
    /\ audio_process # 0
    /\ ffmpeg_process # 0

\* C13: in every reachable state, whatever spawns and signals failed, at most
\* one decoder process and at most one audio process are alive (running or
\* stopped), and an alive one is the one the engine holds and was spawned
\* for the current session.
C13_OneProcessPerRole ==
    /\ \A p \in Pids :
          aud[p].st \in {"running", "stopped"}
          => /\ p = audio_process
             /\ aud[p].sess = session_id
    /\ \A d \in Sessions :
          dec[d].st = "alive"
          => /\ d = ffmpeg_process
             /\ d = session_id

\* a resume whose CONT signal failed: the old audio process was terminated
\* and a replacement spawned
C13_RespawnedOnResume ==
    /\ call.op = "toggle_pause"
    /\ ~call.args[1]
    /\ call.killed # {}
    /\ call.spawned # {}
    /\ audio_process # 0
    /\ aud[audio_process].st = "running"

\* C14: within every call, the termination of the existing process of a role
\* comes before the spawn of a new process of that role; in start (and seek)
\* both terminations come before either spawn; and a call that spawns a
\* process of a role has terminated the one the engine held for that role.
C14_TerminateBeforeSpawn ==
    call.op # "none"
    => LET ev == call.events IN
       /\ \A i \in 1..Len(ev), j \in 1..Len(ev) :
             (/\ ev[i][1] = "spawn"
              /\ ev[j][1] = "kill"
              /\ (ev[i][2] = ev[j][2] \/ call.op \in {"start", "seek"}))
             => j < i
       /\ \A i \in 1..Len(ev) :
             (ev[i][1] = "spawn" /\ ev[i][2] = "audio" /\ call.pre.audio_process # 0)
             => \E j \in 1..Len(ev) : ev[j] = <<"kill", "audio", call.pre.audio_process>>
       /\ \A i \in 1..Len(ev) :
             (ev[i][1] = "spawn" /\ ev[i][2] = "ffmpeg" /\ call.pre.ffmpeg_process # 0)
             => \E j \in 1..Len(ev) : ev[j] = <<"kill", "ffmpeg", call.pre.ffmpeg_process>>

\* a seek that terminated both processes of the old session and spawned both
\* of the new one
C14_ReplacedBothProcesses ==
    /\ call.op = "seek"
    /\ Len(call.events) = 4
    /\ call.events[1][1] = "kill"
    /\ call.events[2][1] = "kill"
    /\ call.events[3] = <<"spawn", "audio", audio_process>>
    /\ call.events[4] = <<"spawn", "ffmpeg", ffmpeg_process>>

\* C15: no VideoEnded(id) is sent once the cancel flag of session id has been
\* set: whenever an event is appended to the channel, the flag of the
\* session it names is unset.
C15_NoEventAfterCancel ==
    [][Len(chan') > Len(chan) => ~stoppers[chan'[Len(chan')].id]]_vars

\* C16: a decode thread whose read fails while its cancel flag is unset goes
\* on to send, and what it sends is VideoEnded with the session id it was
\* created with, after which it has ended; with the flag set it ends without
\* sending.  Nothing else is ever appended to the channel, and a thread gets
\* to the failure branch only from a read on an empty pipe whose writer is
\* gone, so a thread whose reads succeed posts nothing.
C16_EndOfStreamPosted ==
    /\ [][\A i \in Sessions :
            (thr[i].pc = "err" /\ thr'[i] # thr[i])
            => IF stoppers[i]
               THEN thr'[i].pc = "done" /\ chan' = chan
               ELSE thr'[i].pc = "send" /\ chan' = chan]_vars
    /\ [][\A i \in Sessions :
            (thr[i].pc = "send" /\ thr'[i] # thr[i])
            => /\ chan' = Append(chan, [type |-> "VideoEnded", id |-> i])
               /\ thr'[i].pc = "done"]_vars
    /\ [][Len(chan') > Len(chan)
          => \E i \in Sessions :
                /\ thr[i].pc = "send"
                /\ thr[i].current_session_id = i
                /\ chan' = Append(chan, [type |-> "VideoEnded", id |-> i])]_vars
    /\ [][\A i \in Sessions :
            (thr'[i].pc \in {"err", "send"} /\ thr[i].pc \notin {"err", "send"})
            => /\ thr[i].pc = "read"
               /\ dec[i].avail = 0
               /\ dec[i].st = "dead"]_vars

\* a thread is about to send for its session while a newer session is current
C16_SendingForOlderSession ==
    \E i \in Sessions :
        /\ thr[i].pc = "send"
        /\ session_id # i
        /\ Len(chan) < ChanCap

\* C17: a session whose decoder failed to spawn has no decode thread, the
\* engine holds no decoder handle for it, and no event naming it is in the
\* channel, now or later: neither a thread nor a decoder appears for a
\* session after the start that created the session has returned.
C17_NoThreadWithoutDecoder ==
    /\ [](\A i \in Sessions :
            dec[i].st = "none"
            => /\ thr[i].pc = "none"
               /\ ffmpeg_process # i
               /\ \A k \in 1..Len(chan) : chan[k].id # i)
    /\ [][\A i \in Sessions :
            (i <= session_id /\ dec[i].st = "none")
            => /\ dec'[i].st = "none"
               /\ thr'[i].pc = "none"]_vars

\* the current session was started without a decoder
C17_StartedWithoutDecoder ==
    /\ session_id >= 1
    /\ current_stopper = session_id
    /\ mode = "Video"
    /\ dec[session_id].st = "none"
    /\ thr[session_id].pc = "none"
    /\ ffmpeg_process = 0

\* C18: a start (or seek) whose decoder fails to spawn leaves the engine as
\* after a stop: no cancel handle is held (the application's is-running test
\* is false) and no audio process is held.
C18_FailedStartIsInactive ==
    (call.op \in {"start", "seek"} /\ ~call.args[5])
    => /\ current_stopper = 0
       /\ audio_process = 0
       /\ ffmpeg_process = 0

\* C19: every start, and every seek, raises session_id by exactly 1; stop and
\* toggle_pause leave it as it was; the ids in use are 1..session_id, each
\* thread carries the id of the session it was made for, and no thread,
\* decoder or cancel flag exists yet for an id above session_id, so the
\* next start cannot reuse one.
C19_SessionIdMonotonic ==
    /\ call.op \in {"start", "seek"} => session_id = call.pre.session_id + 1
    /\ call.op \in {"stop", "toggle_pause"} => session_id = call.pre.session_id
    /\ \A i \in Sessions :
          /\ thr[i].pc # "none" => (thr[i].current_session_id = i /\ i <= session_id)
          /\ i > session_id
             => (thr[i].pc = "none" /\ dec[i].st = "none" /\ ~stoppers[i])
    /\ \A p \in Pids : aud[p].st # "none" => aud[p].sess \in 1..session_id

\* two sessions have been started, each with a thread of its own, and the
\* second has been paused or resumed
C19_SecondSessionPaused ==
    /\ call.op = "toggle_pause"
    /\ session_id = 2
    /\ thr[1].pc # "none"
    /\ thr[2].pc # "none"
    /\ thr[1].current_session_id # thr[2].current_session_id

C21_PositionContinuousAcrossPause ==
    /\ [](call.op = "toggle_pause"
           => /\ current_time(World, call.at) = current_time(call.pre, call.at)
              /\ is_paused
                 => seek_time = call.pre.seek_time
                                  + (call.at - call.pre.start_instant)
              /\ ~is_paused
                 => /\ seek_time = call.pre.seek_time
                    /\ start_instant = call.at)
    /\ [][(is_paused /\ is_paused' /\ session_id' = session_id)
          => current_time(World, now)' = current_time(World, now)]_vars

\* a session paused at time 0 is resumed after the clock has moved on
C21_ResumedLater ==
    /\ call.op = "toggle_pause"
    /\ call.pre.is_paused
    /\ ~is_paused
    /\ call.at > call.pre.start_instant
    /\ current_time(World, now) = call.pre.seek_time

\* C22: a toggle_pause leaves the cancel handle and every cancel flag, the
\* decoder handle and every decoder process, every decode thread, the
\* session id, the duration and the frame buffer with its geometry as they
\* were; it terminates and spawns no decoder.  Only is_paused, the pause
\* flag, seek_time (on pause) or the anchor (on resume) and the audio
\* process change.
C22_TogglePauseKeepsDecoder ==
    /\ call.op = "toggle_pause"
       => /\ current_stopper = call.pre.current_stopper
          /\ ffmpeg_process = call.pre.ffmpeg_process
          /\ session_id = call.pre.session_id
          /\ buffer = call.pre.buffer
          /\ source_width = call.pre.source_width
          /\ source_height = call.pre.source_height
          /\ is_paused = ~call.pre.is_paused
          /\ pause_signal = is_paused
          /\ is_paused => start_instant = call.pre.start_instant
          /\ ~is_paused => seek_time = call.pre.seek_time
          /\ \A x \in call.killed \cup call.spawned : x[1] = "audio"
          /\ \A x \in call.signals : x[2] = "audio"
    /\ mode = "Video"
       => \A s \in BOOLEAN, a \in BOOLEAN :
             LET e == toggle_pause(World, now, s, a) IN
             /\ e.stoppers = stoppers
             /\ e.dec = dec
             /\ e.thr = thr
             /\ e.duration = duration
             /\ e.current_stopper = current_stopper
             /\ e.ffmpeg_process = ffmpeg_process

\* a pause of a session with a live decoder and thread whose STOP signal
\* failed, so that the audio process was killed
C22_PausedWithDecoderAlive ==
    /\ call.op = "toggle_pause"
    /\ is_paused
    /\ call.killed # {}
    /\ ffmpeg_process = session_id
    /\ dec[session_id].st = "alive"
    /\ thr[session_id].pc = "top"
    /\ ~stoppers[session_id]

\* C23: while the pause flag is set no decode thread takes a frame from its
\* decoder pipe: every step in which a thread's count of frames read goes up
\* is taken with the flag unset.
C23_NoReadWhilePaused ==
    [][\A i \in Sessions : thr'[i].nread > thr[i].nread => ~pause_signal]_vars

C25_LockHeldOnlyForCopy ==
    /\ [](\A i \in Sessions : buffer_lock = i <=> thr[i].pc = "locked")
    /\ [](buffer_lock = MainThread <=> main_pc = "drawing")
    /\ [](buffer_lock \in {0, MainThread} \cup Sessions)
    /\ [][\A i \in Sessions :
            (buffer_lock = i /\ thr'[i] # thr[i]) => buffer_lock' = 0]_vars
    /\ [][(buffer_lock = MainThread /\ main_pc' # main_pc) => buffer_lock' = 0]_vars
    /\ [][buffer' # buffer
          => \/ buffer_lock = 0 /\ session_id' # session_id
             \/ /\ buffer_lock \in Sessions
                /\ thr'[buffer_lock] # thr[buffer_lock]]_vars
    /\ (buffer_lock # 0) ~> (buffer_lock = 0)

\* a decode thread of a superseded session holds the Mutex while the main
\* thread is about to draw and the thread of the current session is at its
\* pipe read
C25_ThreadHoldsLockBeforeDraw ==
    \E i \in Sessions :
        /\ buffer_lock = i
        /\ i # session_id
        /\ main_pc = "key"
        /\ mode = "Video"
        /\ thr[session_id].pc = "read"

\* C26: every decode thread whose cancel flag has been set, by a stop or
\* by the start or seek that superseded its session, gets to the end of
\* its function, wherever the cancellation found it: at the pipe read, in
\* the paused sleep loop, waiting for the Mutex or about to copy.  The
\* call that sets the flag also terminates the thread's decoder, and it
\* changes no thread: a thread moves only by its own steps.
C26_CancelledThreadTerminates ==
    /\ \A i \in Sessions :
          (stoppers[i] /\ thr[i].pc # "none") ~> (thr[i].pc = "done")
    /\ [](\A i \in Sessions : stoppers[i] => dec[i].st # "alive")
    /\ [][\A i \in Sessions :
            (thr[i].pc # "none" /\ (stoppers' # stoppers \/ session_id' # session_id))
            => thr'[i] = thr[i]]_vars

\* a stop has cancelled a paused session whose thread is in the sleep loop
\* while the thread of an earlier, superseded session waits at its pipe read
C26_CancelledWhileAsleep ==
    /\ session_id = 2
    /\ current_stopper = 0
    /\ stoppers[1]
    /\ stoppers[2]
    /\ thr[2].pc = "chk_pause"
    /\ thr[1].pc = "read"

C28_InsertThenDeleteRestores ==
    (/\ edit.op = "delete_prev_grapheme"
     /\ edit.pre.op = "insert_grapheme"
     /\ edit.pre.pre.cursor \in
            grapheme_indices(edit.pre.pre.text) \cup {StrLen(edit.pre.pre.text)})
    => /\ edit.text = edit.pre.pre.text
       /\ edit.cursor = edit.pre.pre.cursor

\* C28 (amended): insert_grapheme puts c at the cursor, leaves the text on
\* both sides as it was and advances the cursor by c's encoded length;
\* delete_prev_grapheme at cursor 0 returns false and changes nothing, and
\* from a cursor on a grapheme boundary it returns true, removes exactly the
\* grapheme that ends at the cursor and puts the cursor where that grapheme
\* began; insert followed by delete gives back the original text and cursor
\* whenever the inserted c begins a grapheme of its own, that is, does not
\* extend the grapheme that ends at the cursor.
C28_InsertThenDeleteRestoresUnlessJoined ==
    /\ edit.op = "insert_grapheme" =>
          /\ edit.cursor = edit.pre.cursor + len_utf8(edit.c)
          /\ Len(edit.text) = Len(edit.pre.text) + 1
          /\ \E k \in 1..Len(edit.text) :
                /\ Offset(edit.text, k) = edit.pre.cursor
                /\ edit.text[k] = edit.c
                /\ SubSeq(edit.text, 1, k - 1) = SubSeq(edit.pre.text, 1, k - 1)
                /\ SubSeq(edit.text, k + 1, Len(edit.text))
                      = SubSeq(edit.pre.text, k, Len(edit.pre.text))
          /\ is_char_boundary(edit.text, edit.cursor)
    /\ (edit.op = "delete_prev_grapheme" /\ edit.pre.cursor = 0) =>
          /\ ~edit.ret
          /\ edit.text = edit.pre.text
          /\ edit.cursor = 0
    /\ (/\ edit.op = "delete_prev_grapheme"
        /\ edit.pre.cursor > 0
        /\ edit.pre.cursor \in
              grapheme_indices(edit.pre.text) \cup {StrLen(edit.pre.text)}) =>
          /\ edit.ret
          /\ edit.cursor < edit.pre.cursor
          /\ edit.cursor \in grapheme_indices(edit.pre.text)
          /\ \A i \in grapheme_indices(edit.pre.text) :
                ~(edit.cursor < i /\ i < edit.pre.cursor)
          /\ StrLen(edit.text) = StrLen(edit.pre.text) - (edit.pre.cursor - edit.cursor)
          /\ \E j, k \in 1..(Len(edit.pre.text) + 1) :
                /\ Offset(edit.pre.text, j) = edit.cursor
                /\ Offset(edit.pre.text, k) = edit.pre.cursor
                /\ edit.text = SubSeq(edit.pre.text, 1, j - 1)
                                 \o SubSeq(edit.pre.text, k, Len(edit.pre.text))
    /\ (/\ edit.op = "delete_prev_grapheme"
        /\ edit.pre.op = "insert_grapheme"
        /\ edit.pre.pre.cursor \in
              grapheme_indices(edit.pre.pre.text) \cup {StrLen(edit.pre.pre.text)}
        /\ edit.pre.pre.cursor \in grapheme_indices(edit.pre.text)) =>
          /\ edit.ret
          /\ edit.text = edit.pre.pre.text
          /\ edit.cursor = edit.pre.pre.cursor

\* C28 witness: a three-byte char was inserted in the middle of a text, after
\* another three-byte char, and deleted again.
C28_MultibyteInsertedAndDeleted ==
    /\ edit.op = "delete_prev_grapheme"
    /\ edit.pre.op = "insert_grapheme"
    /\ edit.pre.c = "han"
    /\ edit.pre.pre.text = <<"han", "a">>
    /\ edit.pre.pre.cursor = 3
    /\ edit.text = edit.pre.pre.text
    /\ edit.cursor = 3

\* C29: after move_left_grapheme, move_right_grapheme, move_word_backward or
\* move_word_forward from a cursor on a grapheme boundary the text is as it
\* was and the cursor is within [0, len] and on a grapheme boundary;
\* move_left_grapheme goes back by exactly one grapheme, or stays at 0;
\* move_word_backward goes back over the whitespace graphemes before the
\* cursor and then over all the non-whitespace graphemes before those, so
\* that it lands at 0 or just after a whitespace grapheme.  A grapheme is
\* whitespace when all its chars are, and non-whitespace otherwise.
C29_WordBackwardLandsOnWordStart ==
    LET text == edit.pre.text
        p == edit.pre.cursor
        r == edit.cursor
        G == grapheme_indices(text) \cup {StrLen(text)}
        ws(b) == LET seg == Slice(text, Maximum({i \in G : i < b}), b)
                 IN  \A k \in 1..Len(seg) : is_whitespace(seg[k])
    IN  p \in G =>
          /\ edit.op \in {"move_left_grapheme", "move_right_grapheme",
                          "move_word_backward", "move_word_forward"} =>
                /\ edit.text = text
                /\ 0 <= r /\ r <= StrLen(text)
                /\ r \in G
          /\ edit.op = "move_left_grapheme" =>
                IF p = 0 THEN r = 0
                ELSE /\ r < p
                     /\ \A i \in G : ~(r < i /\ i < p)
          /\ edit.op = "move_word_backward" =>
                \E e \in G :
                   /\ r <= e /\ e <= p
                   /\ \A b \in G : (e < b /\ b <= p) => ws(b)
                   /\ \A b \in G : (r < b /\ b <= e) => ~ws(b)
                   /\ e = 0 \/ ~ws(e)
                   /\ r = 0 \/ ws(r)

\* C30: from a cursor on a grapheme boundary, move_word_forward goes forward
\* over the non-whitespace graphemes at the cursor and then over all the
\* whitespace graphemes after them, so that it stops at the end of the text
\* or in front of a non-whitespace grapheme; delete_word removes the
\* whitespace graphemes before the cursor together with all the
\* non-whitespace graphemes before those, keeps the text before and after
\* that range, and puts the cursor at the start of the range.  A grapheme is
\* whitespace when all its chars are, and non-whitespace otherwise.
C30_WordForwardAndDeleteWord ==
    LET text == edit.pre.text
        p == edit.pre.cursor
        r == edit.cursor
        len == StrLen(text)
        G == grapheme_indices(text) \cup {len}
        before(b) == Slice(text, Maximum({i \in G : i < b}), b)
        after(b) == Slice(text, b, Minimum({i \in G : i > b}))
        ws(seg) == \A k \in 1..Len(seg) : is_whitespace(seg[k])
    IN  p \in G =>
          /\ edit.op = "move_word_forward" =>
                /\ edit.text = text
                /\ \E e \in G :
                      /\ p <= e /\ e <= r
                      /\ \A b \in G : (p <= b /\ b < e) => ~ws(after(b))
                      /\ \A b \in G : (e <= b /\ b < r) => ws(after(b))
                      /\ e = len \/ ws(after(e))
                      /\ r = len \/ ~ws(after(r))
          /\ edit.op = "delete_word" =>
                /\ \E e \in G :
                      /\ r <= e /\ e <= p
                      /\ \A b \in G : (e < b /\ b <= p) => ws(before(b))
                      /\ \A b \in G : (r < b /\ b <= e) => ~ws(before(b))
                      /\ e = 0 \/ ~ws(before(e))
                      /\ r = 0 \/ ws(before(r))
                /\ edit.text = Slice(text, 0, r) \o Slice(text, p, len)
                /\ Slice(edit.text, r, StrLen(edit.text)) = Slice(text, p, len)

\* C31: once the decoder of the current session has reached the end of its
\* stream, with the session neither stopped nor replaced, the consumer
\* eventually acts on its VideoEnded event: the application is in Normal
\* mode with no session active and no process held, whether the event is
\* drained in Video mode or in Insert mode entered from Video and left again.
C31_CompletionSurfaced ==
    \A i \in Sessions :
       (session_id = i /\ current_stopper = i /\ dec[i].st = "dead")
          ~> (/\ mode = "Normal"
              /\ current_stopper = 0
              /\ audio_process = 0
              /\ ffmpeg_process = 0)

\* C32: whenever a decode thread copies a frame into the buffer, at that
\* moment its session's cancel flag is unset and the pause flag is unset:
\* the contents of the buffer change neither while the engine is paused nor
\* after stop has returned.
C32_NoCopyWhilePausedOrCancelled ==
    [][\A i \in Sessions :
          (thr[i].pc = "copy" /\ buffer' = FrameOf(i) /\ buffer' # buffer)
             => (~stoppers[i] /\ ~pause_signal)]_vars

C34_SeekBaseAndFreshSession ==
    call.op = "seek" =>
       LET base == IF call.pre.is_paused
                   THEN call.pre.seek_time
                   ELSE call.pre.seek_time + (call.at - call.pre.start_instant)
           moved == base + call.args[1]
           floored == IF moved < 0 THEN 0 ELSE moved
           target == IF duration > 0 /\ floored > duration
                     THEN duration - TicksPerSec
                     ELSE floored
           offset == (200 * target + TicksPerSec) \div (2 * TicksPerSec)
       IN  /\ seek_time = target
           /\ start_instant = call.at
           /\ ~is_paused
           /\ ~pause_signal
           /\ session_id = call.pre.session_id + 1
           /\ current_stopper = session_id
           /\ ~stoppers[session_id]
           /\ call.pre.audio_process # 0 =>
                 /\ <<"audio", call.pre.audio_process>> \in call.killed
                 /\ audio_process # call.pre.audio_process
           /\ call.pre.ffmpeg_process # 0 =>
                 <<"ffmpeg", call.pre.ffmpeg_process>> \in call.killed
           /\ IF call.args[4]
              THEN /\ audio_process # 0
                   /\ aud[audio_process] = [st |-> "running", sess |-> session_id]
                   /\ <<"audio", audio_process, offset>> \in call.spawned
              ELSE audio_process = 0
           /\ IF call.args[5]
              THEN /\ ffmpeg_process = session_id
                   /\ dec[session_id].st = "alive"
                   /\ <<"ffmpeg", session_id, offset>> \in call.spawned
              ELSE ffmpeg_process = 0
           /\ Cardinality(call.spawned) = Cardinality({k \in {4, 5} : call.args[k]})

\* C34 witness: a session paused at 0 is sought forward half a second later;
\* the new session plays from five seconds, not from five and a half.
C34_SoughtWhilePaused ==
    /\ call.op = "seek"
    /\ call.pre.is_paused
    /\ call.pre.seek_time = 0
    /\ call.at > call.pre.start_instant
    /\ call.args[1] = SeekDelta
    /\ seek_time = SeekDelta
    /\ ~is_paused
    /\ audio_process # 0
    /\ ffmpeg_process = session_id

\* C35: for every session id at most one VideoEnded(id) is ever posted: the
\* channel never holds two, an event for id is appended only by the one
\* thread created for session id, in the step that ends that thread, and a
\* thread that has ended stays ended (no thread is created twice for an id);
\* so the consumer stops the engine on the end of a session at most once.
C35_AtMostOneEndPerSession ==
    /\ [](\A i \in Sessions :
            LET queued == {k \in 1..Len(chan) : chan[k] = VideoEnded(i)}
            IN  /\ Cardinality(queued) <= 1
                /\ queued # {} => thr[i].pc = "done"
                /\ thr[i].pc # "none" => thr[i].current_session_id = i)
    /\ [][\A i \in Sessions :
             LET queued == Cardinality({k \in 1..Len(chan) : chan[k] = VideoEnded(i)})
                 queued_next == Cardinality({k \in 1..Len(chan') : chan'[k] = VideoEnded(i)})
             IN  /\ queued_next > queued =>
                       /\ thr[i].pc = "send"
                       /\ thr'[i].pc = "done"
                       /\ chan' = Append(chan, VideoEnded(i))
                 /\ thr[i].pc = "done" => thr'[i].pc = "done"
                 /\ thr[i].pc # "none" => thr'[i].pc # "none"
                 /\ (thr[i].pc = "none" /\ thr'[i].pc # "none") =>
                       (session_id' = i /\ session_id = i - 1)]_vars

\* C35 witness: the events of two sessions are queued, one each, both
\* threads having ended.
C35_OneEndEachQueued ==
    /\ chan = <<VideoEnded(1), VideoEnded(2)>>
    /\ thr[1].pc = "done"
    /\ thr[2].pc = "done"
    /\ session_id = 2

\* C36: in every state at most one decode thread that has not ended has an
\* unset cancel flag, and it is the thread of the current session, whose
\* flag the engine holds; every other live thread is already cancelled, and
\* after a stop (no flag held) every live thread is.
C36_OneUncancelledThread ==
    LET live == {i \in Sessions : thr[i].pc \notin {"none", "done"}}
        uncancelled == {i \in live : ~stoppers[i]}
    IN  /\ Cardinality(uncancelled) <= 1
        /\ \A i \in uncancelled : i = session_id /\ current_stopper = i
        /\ \A i \in live : i < session_id => stoppers[i]
        /\ current_stopper = 0 => uncancelled = {}
        /\ current_stopper # 0 => (current_stopper = session_id /\ ~stoppers[session_id])

\* C36 witness: the thread of a superseded session is still running, its
\* flag set, beside the thread of the current one.
C36_CancelledThreadBesideCurrent ==
    /\ session_id = 2
    /\ current_stopper = 2
    /\ thr[1].pc = "read"
    /\ stoppers[1]
    /\ thr[2].pc = "read"
    /\ ~stoppers[2]

\* C37: an audio process is held only while a session is active (a cancel
\* handle is held), and a toggle_pause called with no active session spawns
\* no process and leaves seek_time as it was.
C37_AudioOnlyWithSession ==
    /\ current_stopper = 0 => audio_process = 0
    /\ (call.op = "toggle_pause" /\ call.pre.current_stopper = 0)
          => (call.spawned = {} /\ seek_time = call.pre.seek_time)

\* C38: the application mode and the engine agree.  Outside Insert mode the
\* mode is Video exactly when the engine holds a cancel handle; in Insert
\* mode previous_mode is Video exactly when it does.  So 'p', outside Insert
\* mode, finds either a session to stop in Video mode or none at all (the
\* branch of on_key in which it does nothing is never taken), and every
\* seek and toggle_pause is made on an engine holding a cancel handle.
C38_ModeAgreesWithEngine ==
    /\ mode \in {"Normal", "Video"} => (mode = "Video" <=> current_stopper # 0)
    /\ mode = "Insert" =>
          /\ previous_mode \in {"Normal", "Video"}
          /\ previous_mode = "Video" <=> current_stopper # 0
    /\ mode = "Exited" => current_stopper = 0
    /\ ~(mode = "Normal" /\ current_stopper # 0)
    /\ call.op \in {"seek", "toggle_pause"} => call.pre.current_stopper # 0

\* C38 witness: Insert mode entered from Video mode, the session's decoder
\* at its end and the event for it taken off the channel unheeded: the
\* cancel handle is still held.
C38_InsertOverEndedSession ==
    /\ mode = "Insert"
    /\ previous_mode = "Video"
    /\ current_stopper = session_id
    /\ session_id = 1
    /\ thr[1].pc = "done"
    /\ chan = <<>>
    /\ ~stoppers[1]

\* C38 witness: toggle_pause called after Insert mode was left for Video
\* mode.
C38_PausedAfterInsert ==
    /\ call.op = "toggle_pause"
    /\ previous_mode = "Video"
    /\ mode = "Video"
    /\ is_paused

\* C39: under the keys of Insert mode interleaved with replacements of the
\* line by a page, the cursor is always within 0..len(url_input) and on a
\* char boundary; so it was in the state each key acted on, and no insert,
\* drain or truncate is given an index outside the line or inside a char.
C39_CursorWithinInput ==
    /\ edit.cursor \in 0..StrLen(edit.text)
    /\ is_char_boundary(edit.text, edit.cursor)
    /\ edit.pre.cursor \in 0..StrLen(edit.pre.text)
    /\ is_char_boundary(edit.pre.text, edit.pre.cursor)

\* C39 witness: with the cursor at the end of a line of five bytes, a page
\* replaces the line by one of three.
C39_ShorterPageUnderCursor ==
    /\ edit.op = "set_url_input"
    /\ edit.text = <<"han">>
    /\ edit.cursor = 3
    /\ edit.pre.text = <<"a", "han", "a">>
    /\ edit.pre.cursor = 5

\* C39 witness: Ctrl+U with the cursor behind a char of three bytes and a
\* combining mark.
C39_KilledToStart ==
    /\ edit.op = "ctrl_u"
    /\ edit.text = <<"a">>
    /\ edit.cursor = 0
    /\ edit.pre.text = <<"han", "acute", "a">>
    /\ edit.pre.cursor = 5

\* C40: the history is empty or history_index is the index of one of its
\* entries, in every state and so in the state 'h' and 'l' index it in; a
\* page load that is not a history navigation leaves the history alone if
\* the url is its last entry, and otherwise keeps the entries up to
\* history_index, drops those after it and appends the url as the entry
\* history_index then names.
C40_HistoryIndexInRange ==
    /\ nav.history = <<>> \/ nav.history_index < Len(nav.history)
    /\ nav.history = <<>> => nav.history_index = 0
    /\ nav.was.history = <<>> \/ nav.was.history_index < Len(nav.was.history)
    /\ (nav.op \in {"h", "l"} /\ nav.history_index # nav.was.history_index) =>
          /\ nav.history = nav.was.history
          /\ nav.history_index \in {nav.was.history_index - 1, nav.was.history_index + 1}
          /\ nav.history_index + 1 \in DOMAIN nav.history
    /\ (nav.op = "PageLoaded" /\ ~nav.is_history_nav) =>
          LET old == nav.was.history
              kept == SubSeq(old, 1, nav.was.history_index + 1)
          IN  IF old # <<>> /\ old[Len(old)] = nav.url
              THEN /\ nav.history = old
                   /\ nav.history_index = nav.was.history_index
              ELSE /\ nav.history = IF old = <<>> THEN <<nav.url>>
                                    ELSE Append(kept, nav.url)
                   /\ nav.history_index = Len(nav.history) - 1
    /\ (nav.op = "PageLoaded" /\ nav.is_history_nav) =>
          /\ nav.history = nav.was.history
          /\ nav.history_index = nav.was.history_index

\* C40 witness: after 'h' twice in a history of three entries, a page that
\* is not the last entry arrives: the two entries after history_index go.
C40_ForwardEntriesDropped ==
    /\ nav.op = "PageLoaded"
    /\ ~nav.is_history_nav
    /\ nav.url = "B"
    /\ nav.was.history = <<"A", "B", "A">>
    /\ nav.was.history_index = 0
    /\ nav.history = <<"A", "B">>
    /\ nav.history_index = 1

\* C40 witness: a page that is the last entry arrives while history_index
\* names an earlier one: nothing is appended.
C40_LastEntryNotAppended ==
    /\ nav.op = "PageLoaded"
    /\ ~nav.is_history_nav
    /\ nav.url = "B"
    /\ nav.was.history = <<"A", "B">>
    /\ nav.was.history_index = 0
    /\ nav.history = <<"A", "B">>
    /\ nav.history_index = 0

====
